---- MODULE Spec2Model ----
(***************************************************************************)
(* A model of the Amethyst NBT codec (ByteReader / ByteWriter, the Tag     *)
(* classes, TagIO, the compression helpers) and of the region container    *)
(* (RegionReader) of AmethystWebEditor.                                    *)
(*                                                                         *)
(* Representation.                                                         *)
(*  - A byte is an integer 0..255. A JS string is the sequence of its      *)
(*    UTF-16 code units. null (a tag's name) is the value NULL, a sequence *)
(*    that is no string.                                                   *)
(*  - A 64-bit integer (bigint of TagLong, a double's bit pattern) is the  *)
(*    pair <<hi, lo>> of its two 32-bit halves, each read as a signed      *)
(*    32-bit integer: -1 is <<-1, -1>>, 2^63-1 is <<2147483647, -1>>.      *)
(*  - A Float (Double) value is identified with its IEEE-754 bit pattern;  *)
(*    every NaN pattern is one JS value, NaN.                              *)
(*  - A tag is a record [name, type, value]; the value of a TagList is     *)
(*    [listType, tags], the value of a TagCompound is the sequence of the  *)
(*    entries [key, tag] of its Map, in insertion order.                   *)
(***************************************************************************)
EXTENDS Integers, Sequences, FiniteSets, TLC

NULL == <<-1>>

\* Body(v) with v evaluated once: LET x == v IN Body(x).
With(v, Body(_)) == CHOOSE y \in {Body(x) : x \in {v}} : TRUE

\* ------------------------------------------------------------ TagType
TagType_End       == 0
TagType_Byte      == 1
TagType_Short     == 2
TagType_Int       == 3
TagType_Long      == 4
TagType_Float     == 5
TagType_Double    == 6
TagType_ByteArray == 7
TagType_String    == 8
TagType_List      == 9
TagType_Compound  == 10
TagType_IntArray  == 11
TagType_LongArray == 12

\* ------------------------------------------------------------ integers
\* v >> (8*k) for a signed v: k floor divisions by 256.
RECURSIVE Shr8(_, _)
Shr8(v, k) == IF k = 0 THEN v ELSE Shr8(v \div 256, k - 1)

\* The big-endian bytes of the low 8*w bits of v (DataView.setIntN / setUintN
\* keep the low bits of the value they are given).
BytesBE(v, w) == [i \in 1..w |-> Shr8(v, w - i) % 256]

\* A byte read as a signed 8-bit integer (DataView.getInt8).
ToInt8(b) == IF b >= 128 THEN b - 256 ELSE b

\* DataView.getInt16 / getUint16 / getInt32 of big-endian bytes.
Int16BE(b)  == ToInt8(b[1]) * 256 + b[2]
UInt16BE(b) == b[1] * 256 + b[2]
Int32BE(b)  == ToInt8(b[1]) * 16777216 + b[2] * 65536 + b[3] * 256 + b[4]

\* ------------------------------------------------------------ UTF-8
IsHighSurrogate(u) == u >= 55296 /\ u <= 56319
IsLowSurrogate(u)  == u >= 56320 /\ u <= 57343

\* The UTF-8 bytes of one code point.
Utf8Bytes(cp) ==
    IF cp < 128 THEN <<cp>>
    ELSE IF cp < 2048 THEN <<192 + (cp \div 64), 128 + (cp % 64)>>
    ELSE IF cp < 65536 THEN
        <<224 + (cp \div 4096), 128 + ((cp \div 64) % 64), 128 + (cp % 64)>>
    ELSE <<240 + (cp \div 262144), 128 + ((cp \div 4096) % 64),
           128 + ((cp \div 64) % 64), 128 + (cp % 64)>>

\* new TextEncoder().encode(s): a surrogate pair is one code point, a lone
\* surrogate is encoded as U+FFFD.
RECURSIVE TextEncodeFrom(_, _)
TextEncodeFrom(s, i) ==
    IF i > Len(s) THEN <<>>
    ELSE IF IsHighSurrogate(s[i]) /\ i < Len(s) /\ IsLowSurrogate(s[i + 1]) THEN
        Utf8Bytes(65536 + (s[i] - 55296) * 1024 + (s[i + 1] - 56320))
            \o TextEncodeFrom(s, i + 2)
    ELSE IF IsHighSurrogate(s[i]) \/ IsLowSurrogate(s[i]) THEN
        Utf8Bytes(65533) \o TextEncodeFrom(s, i + 1)
    ELSE Utf8Bytes(s[i]) \o TextEncodeFrom(s, i + 1)

\* A text of code units below 128 is its own encoding.
TextEncode(s) ==
    IF \A i \in 1..Len(s) : s[i] < 128 THEN s ELSE TextEncodeFrom(s, 1)

\* The WHATWG UTF-8 decoder, one code point: the lead byte fixes the number of
\* continuation bytes and the range of the first one; a byte outside its range
\* ends the sequence with U+FFFD and is decoded again as a lead byte.
RECURSIVE Utf8Continue(_, _, _, _, _, _)
Utf8Continue(b, j, needed, cp, lower, upper) ==
    IF needed = 0 THEN [cp |-> cp, next |-> j]
    ELSE IF j > Len(b) THEN [cp |-> 65533, next |-> j]
    ELSE IF b[j] < lower \/ b[j] > upper THEN [cp |-> 65533, next |-> j]
    ELSE Utf8Continue(b, j + 1, needed - 1, cp * 64 + (b[j] % 64), 128, 191)

Utf8CodePoint(b, i) ==
    LET c == b[i] IN
    IF c <= 127 THEN [cp |-> c, next |-> i + 1]
    ELSE IF c >= 194 /\ c <= 223 THEN Utf8Continue(b, i + 1, 1, c % 32, 128, 191)
    ELSE IF c >= 224 /\ c <= 239 THEN
        Utf8Continue(b, i + 1, 2, c % 16,
                     IF c = 224 THEN 160 ELSE 128, IF c = 237 THEN 159 ELSE 191)
    ELSE IF c >= 240 /\ c <= 244 THEN
        Utf8Continue(b, i + 1, 3, c % 8,
                     IF c = 240 THEN 144 ELSE 128, IF c = 244 THEN 143 ELSE 191)
    ELSE [cp |-> 65533, next |-> i + 1]

\* The UTF-16 code units of one code point.
Utf16Units(cp) ==
    IF cp < 65536 THEN <<cp>>
    ELSE <<55296 + ((cp - 65536) \div 1024), 56320 + ((cp - 65536) % 1024)>>

RECURSIVE Utf8DecodeFrom(_, _)
Utf8DecodeFrom(b, i) ==
    IF i > Len(b) THEN <<>>
    ELSE With(Utf8CodePoint(b, i), LAMBDA r :
             Utf16Units(r.cp) \o Utf8DecodeFrom(b, r.next))

\* new TextDecoder().decode(b): fatal is false (malformed input becomes
\* U+FFFD) and ignoreBOM is false, so a leading U+FEFF is dropped.
TextDecode(b) ==
    With(Utf8DecodeFrom(b, 1), LAMBDA s :
        IF Len(s) > 0 /\ s[1] = 65279 THEN SubSeq(s, 2, Len(s)) ELSE s)

\* ------------------------------------------------------------ results
\* An operation that can throw returns a record: ok, the error thrown (when
\* not ok), the value returned, and the stream (reader or writer) it leaves.
NoErr == [kind |-> "none", id |-> 0]
Err(kind, id) == [kind |-> kind, id |-> id]
Ok(v, s) == [ok |-> TRUE, err |-> NoErr, v |-> v, s |-> s]
Fail(e, s) == [ok |-> FALSE, err |-> e, v |-> <<>>, s |-> s]

\* ------------------------------------------------------------ ByteReader
\* The largest typed array, in MiB, that the engine running the code
\* allocates: 2 GiB, 4 GiB, or every length an Int32 can name (16 GiB).
EngineMaxMiB == {2048, 4096, 16384}
LargestEngineMiB == 16384

\* A reader is [uint8, offset]: the bytes and the 0-based cursor. maxMiB is
\* not a field of the class: it is the engine the reader runs in, carried with
\* the reader to where a typed array is allocated.
NewByteReader(buffer) ==
    [uint8 |-> buffer, offset |-> 0, maxMiB |-> LargestEngineMiB]

\* The same reader in an engine of another limit.
InEngine(s, maxMiB) == [s EXCEPT !.maxMiB = maxMiB]

\* checkBounds(len) passes: not offset + len > byteLength, in numbers that do
\* not overflow.
CheckBounds(s, len) == ~(len > Len(s.uint8) - s.offset)

\* A fixed-width read: checkBounds, then the DataView accessor, which throws a
\* RangeError for an offset below 0.
ReadFixed(s, w) ==
    IF ~CheckBounds(s, w) THEN Fail(Err("EndOfStream", 0), s)
    ELSE IF s.offset < 0 THEN Fail(Err("RangeError", 0), s)
    ELSE Ok(SubSeq(s.uint8, s.offset + 1, s.offset + w),
            [s EXCEPT !.offset = s.offset + w])

ReadWith(s, w, Conv(_)) ==
    With(ReadFixed(s, w), LAMBDA r : IF r.ok THEN Ok(Conv(r.v), r.s) ELSE r)

FirstInt8(b) == ToInt8(b[1])
FirstUInt8(b) == b[1]

\* The JS value of a float32 bit pattern: every NaN pattern is the value NaN,
\* written back as 0x7FC00000.
Float32Value(bits) ==
    LET a == IF bits < 0 THEN (bits + 2147483647) + 1 ELSE bits
    IN  IF a > 2139095040 THEN 2143289344 ELSE bits

\* The JS value of a float64 bit pattern <<hi, lo>>; NaN is 0x7FF8000000000000.
Float64Value(p) ==
    LET a == IF p[1] < 0 THEN (p[1] + 2147483647) + 1 ELSE p[1]
    IN  IF a > 2146435072 \/ (a = 2146435072 /\ p[2] # 0)
        THEN <<2146959360, 0>> ELSE p

Int64BE(b) == <<Int32BE(SubSeq(b, 1, 4)), Int32BE(SubSeq(b, 5, 8))>>
Float32BE(b) == Float32Value(Int32BE(b))
Float64BE(b) == Float64Value(Int64BE(b))

readByte(s)   == ReadWith(s, 1, FirstInt8)
readUByte(s)  == ReadWith(s, 1, FirstUInt8)
readShort(s)  == ReadWith(s, 2, Int16BE)
readUShort(s) == ReadWith(s, 2, UInt16BE)
readInt(s)    == ReadWith(s, 4, Int32BE)
readLong(s)   == ReadWith(s, 8, Int64BE)
readFloat(s)  == ReadWith(s, 4, Float32BE)
readDouble(s) == ReadWith(s, 8, Float64BE)

\* TypedArray.subarray(begin, end): a negative index counts from the end, both
\* are clamped to the array, and an end before the begin gives no bytes.
Clamp(i, n) == IF i < 0 THEN (IF n + i < 0 THEN 0 ELSE n + i)
               ELSE (IF i > n THEN n ELSE i)
Subarray(a, begin, end) ==
    SubSeq(a, Clamp(begin, Len(a)) + 1, Clamp(end, Len(a)))

\* readBytes(length): the cursor moves by length whatever its sign.
readBytes(s, length) ==
    IF ~CheckBounds(s, length) THEN Fail(Err("EndOfStream", 0), s)
    ELSE Ok(Subarray(s.uint8, s.offset, s.offset + length),
            [s EXCEPT !.offset = s.offset + length])

\* ------------------------------------------------------------ ByteWriter
\* A writer is [bytes, capacity]: the written prefix buffer[0 .. offset) and
\* buffer.length; offset is Len(bytes).
DefaultCapacity == 1024
NewByteWriter(initialCapacity) == [bytes |-> <<>>, capacity |-> initialCapacity]

Max(a, b) == IF a > b THEN a ELSE b

ensureCapacity(w, add) ==
    IF Len(w.bytes) + add > w.capacity
    THEN [w EXCEPT !.capacity = Max(w.capacity * 2, Len(w.bytes) + add)]
    ELSE w

writeBytes(w, data) ==
    [ensureCapacity(w, Len(data)) EXCEPT !.bytes = w.bytes \o data]

writeByte(w, val)   == writeBytes(w, BytesBE(val, 1))
writeUByte(w, val)  == writeBytes(w, BytesBE(val, 1))
writeShort(w, val)  == writeBytes(w, BytesBE(val, 2))
writeUShort(w, val) == writeBytes(w, BytesBE(val, 2))
writeInt(w, val)    == writeBytes(w, BytesBE(val, 4))
writeLong(w, val)   == writeBytes(w, BytesBE(val[1], 4) \o BytesBE(val[2], 4))
writeFloat(w, val)  == writeBytes(w, BytesBE(val, 4))
writeDouble(w, val) == writeBytes(w, BytesBE(val[1], 4) \o BytesBE(val[2], 4))

toUint8Array(w) == w.bytes

\* ------------------------------------------------------------ Tag
\* The tag classes' constructors; a new tag has the name null.
MkTag(type, value) == [name |-> NULL, type |-> type, value |-> value]
NewTagEnd          == MkTag(TagType_End, <<>>)
NewTagByte(v)      == MkTag(TagType_Byte, v)
NewTagShort(v)     == MkTag(TagType_Short, v)
NewTagInt(v)       == MkTag(TagType_Int, v)
NewTagLong(v)      == MkTag(TagType_Long, v)
NewTagFloat(v)     == MkTag(TagType_Float, v)
NewTagDouble(v)    == MkTag(TagType_Double, v)
NewTagByteArray(v) == MkTag(TagType_ByteArray, v)
NewTagString(v)    == MkTag(TagType_String, v)
NewTagList(listType, tags) ==
    MkTag(TagType_List, [listType |-> listType, tags |-> tags])
NewTagCompound(entries) == MkTag(TagType_Compound, entries)
NewTagIntArray(v)  == MkTag(TagType_IntArray, v)
NewTagLongArray(v) == MkTag(TagType_LongArray, v)

\* Tag.create(type): the default tag of the class, or the unknown-type error.
TagCreate(type) ==
    CASE type = TagType_End       -> Ok(NewTagEnd, <<>>)
      [] type = TagType_Byte      -> Ok(NewTagByte(0), <<>>)
      [] type = TagType_Short     -> Ok(NewTagShort(0), <<>>)
      [] type = TagType_Int       -> Ok(NewTagInt(0), <<>>)
      [] type = TagType_Long      -> Ok(NewTagLong(<<0, 0>>), <<>>)
      [] type = TagType_Float     -> Ok(NewTagFloat(0), <<>>)
      [] type = TagType_Double    -> Ok(NewTagDouble(<<0, 0>>), <<>>)
      [] type = TagType_ByteArray -> Ok(NewTagByteArray(<<>>), <<>>)
      [] type = TagType_String    -> Ok(NewTagString(<<>>), <<>>)
      [] type = TagType_List      -> Ok(NewTagList(TagType_End, <<>>), <<>>)
      [] type = TagType_Compound  -> Ok(NewTagCompound(<<>>), <<>>)
      [] type = TagType_IntArray  -> Ok(NewTagIntArray(<<>>), <<>>)
      [] type = TagType_LongArray -> Ok(NewTagLongArray(<<>>), <<>>)
      [] OTHER -> Fail(Err("UnknownTagType", type), <<>>)

\* set as a push: a key already present gets a second entry.
CompoundSet_Append(entries, name, tag) ==
    Append(entries, [key |-> name, tag |-> [tag EXCEPT !.name = name]])

\* TagCompound.set(name, tag) on the entries of the Map: the tag takes the
\* name; a key already present keeps its place and gets the new tag.
CompoundSet(entries, name, tag) ==
    LET e == [key |-> name, tag |-> [tag EXCEPT !.name = name]]
    IN  IF \E i \in 1..Len(entries) : entries[i].key = name
        THEN [i \in 1..Len(entries) |->
                 IF entries[i].key = name THEN e ELSE entries[i]]
        ELSE Append(entries, e)

\* TagCompound.get(name): the tag, or NULL for undefined.
CompoundGet(entries, name) ==
    IF \E i \in 1..Len(entries) : entries[i].key = name
    THEN entries[CHOOSE i \in 1..Len(entries) : entries[i].key = name].tag
    ELSE NULL

\* ------------------------------------------------------------ encoding
\* writePayload and write return [ok, err, s, t]: the writer and the tag as
\* the call leaves them (TagList.writePayload assigns listType).
WOk(s, t) == [ok |-> TRUE, err |-> NoErr, s |-> s, t |-> t]
WFail(e, s, t) == [ok |-> FALSE, err |-> e, s |-> s, t |-> t]

ToUint8(b) == b % 256

\* for (const i of this.value) s.writeInt(i), from element i on.
RECURSIVE WriteInts(_, _, _)
WriteInts(s, v, i) ==
    IF i > Len(v) THEN s ELSE WriteInts(writeInt(s, v[i]), v, i + 1)

\* for (const l of this.value) s.writeLong(l), from element i on.
RECURSIVE WriteLongs(_, _, _)
WriteLongs(s, v, i) ==
    IF i > Len(v) THEN s ELSE WriteLongs(writeLong(s, v[i]), v, i + 1)

\* The loop without its test: no tag is found to be of another type.
MixedTypes_Unchecked(tags, listType) == FALSE

\* for (const t of this.tags) if (t.type !== this.listType) throw.
MixedTypes(tags, listType) ==
    \E i \in 1..Len(tags) : tags[i].type # listType

RECURSIVE WritePayload(_, _)
RECURSIVE TagWrite(_, _, _, _)
RECURSIVE WriteListTags(_, _, _, _)
RECURSIVE WriteCompoundTags(_, _, _, _)

\* Tag.write(stream, writeId, writeName).
TagWrite(tag, s, writeId, writeName) ==
    With(IF writeId THEN writeByte(s, tag.type) ELSE s, LAMBDA s1 :
    IF writeName /\ tag.name = NULL THEN WFail(Err("NullName", 0), s1, tag)
    ELSE IF writeName
         THEN With(TextEncode(tag.name), LAMBDA nameBytes :
                  WritePayload(tag, writeBytes(writeUShort(s1, Len(nameBytes)),
                                               nameBytes)))
         ELSE WritePayload(tag, s1))

\* for (const tag of this.tags) tag.writePayload(s), from element i on.
WriteListTags(tags, i, s, done) ==
    IF i > Len(tags) THEN WOk(s, done)
    ELSE With(WritePayload(tags[i], s), LAMBDA r :
             IF r.ok THEN WriteListTags(tags, i + 1, r.s, Append(done, r.t))
             ELSE WFail(r.err, r.s,
                        done \o <<r.t>> \o SubSeq(tags, i + 1, Len(tags))))

\* for (const tag of this.tags.values()) tag.write(s, true, true), from i on.
WriteCompoundTags(entries, i, s, done) ==
    IF i > Len(entries) THEN WOk(s, done)
    ELSE With(TagWrite(entries[i].tag, s, TRUE, TRUE), LAMBDA r :
         With([key |-> entries[i].key, tag |-> r.t], LAMBDA e :
             IF r.ok THEN WriteCompoundTags(entries, i + 1, r.s, Append(done, e))
             ELSE WFail(r.err, r.s,
                        done \o <<e>> \o SubSeq(entries, i + 1, Len(entries)))))

WritePayload(tag, s) ==
    CASE tag.type = TagType_End    -> WOk(s, tag)
      [] tag.type = TagType_Byte   -> WOk(writeByte(s, tag.value), tag)
      [] tag.type = TagType_Short  -> WOk(writeShort(s, tag.value), tag)
      [] tag.type = TagType_Int    -> WOk(writeInt(s, tag.value), tag)
      [] tag.type = TagType_Long   -> WOk(writeLong(s, tag.value), tag)
      [] tag.type = TagType_Float  -> WOk(writeFloat(s, tag.value), tag)
      [] tag.type = TagType_Double -> WOk(writeDouble(s, tag.value), tag)
      [] tag.type = TagType_ByteArray ->
            WOk(writeBytes(writeInt(s, Len(tag.value)),
                           [i \in 1..Len(tag.value) |-> ToUint8(tag.value[i])]), tag)
      [] tag.type = TagType_String ->
            With(TextEncode(tag.value), LAMBDA bytes :
                WOk(writeBytes(writeUShort(s, Len(bytes)), bytes), tag))
      [] tag.type = TagType_List ->
            With(tag.value.tags, LAMBDA tags :
            With(IF Len(tags) > 0 THEN tags[1].type ELSE tag.value.listType,
                 LAMBDA listType :
            With([tag EXCEPT !.value.listType = listType], LAMBDA t1 :
                IF MixedTypes(tags, listType)
                THEN WFail(Err("MixedList", 0), s, t1)
                ELSE With(WriteListTags(tags, 1,
                              writeInt(writeByte(s, listType), Len(tags)), <<>>),
                          LAMBDA r :
                     With([t1 EXCEPT !.value.tags = r.t], LAMBDA t2 :
                         IF r.ok THEN WOk(r.s, t2) ELSE WFail(r.err, r.s, t2))))))
      [] tag.type = TagType_Compound ->
            With(WriteCompoundTags(tag.value, 1, s, <<>>), LAMBDA r :
            With([tag EXCEPT !.value = r.t], LAMBDA t1 :
                IF r.ok THEN WOk(writeByte(r.s, TagType_End), t1)
                ELSE WFail(r.err, r.s, t1)))
      [] tag.type = TagType_IntArray ->
            WOk(WriteInts(writeInt(s, Len(tag.value)), tag.value, 1), tag)
      [] tag.type = TagType_LongArray ->
            WOk(WriteLongs(writeInt(s, Len(tag.value)), tag.value, 1), tag)

\* ------------------------------------------------------------ decoding
\* readPayload of the tag Tag.create(type) made: Ok(value, reader) or the
\* error thrown.
RECURSIVE ReadPayload(_, _)
RECURSIVE ReadListTags(_, _, _, _)
RECURSIVE ReadCompoundTags(_, _)
RECURSIVE ReadInts(_, _, _)
RECURSIVE ReadLongs(_, _, _)

\* new Int32Array(len), new BigInt64Array(len): a negative length throws a
\* RangeError, and so does a length of more bytes than the engine allocates
\* (len * width <= maxMiB * 2^20, without the product).
Allocates(s, len, width) ==
    /\ len >= 0
    /\ LET perMiB == 1048576 \div width
       IN  (len \div perMiB) + (IF len % perMiB = 0 THEN 0 ELSE 1) <= s.maxMiB

\* for (i < len) this.value[i] = s.readInt(), with n elements left.
ReadInts(s, n, done) ==
    IF n <= 0 THEN Ok(done, s)
    ELSE With(readInt(s), LAMBDA r :
             IF r.ok THEN ReadInts(r.s, n - 1, Append(done, r.v)) ELSE r)

ReadLongs(s, n, done) ==
    IF n <= 0 THEN Ok(done, s)
    ELSE With(readLong(s), LAMBDA r :
             IF r.ok THEN ReadLongs(r.s, n - 1, Append(done, r.v)) ELSE r)

\* The loop of TagList.readPayload, with n elements left.
ReadListTags(listType, s, n, done) ==
    IF n <= 0 THEN Ok(done, s)
    ELSE With(TagCreate(listType), LAMBDA c :
         IF ~c.ok THEN Fail(c.err, s)
         ELSE With(ReadPayload(listType, s), LAMBDA r :
                  IF r.ok
                  THEN ReadListTags(listType, r.s, n - 1,
                                    Append(done, [c.v EXCEPT !.value = r.v]))
                  ELSE r))

\* The loop of TagCompound.readPayload.
ReadCompoundTags(s, entries) ==
    With(readByte(s), LAMBDA t :
    IF ~t.ok THEN t
    ELSE IF t.v = TagType_End THEN Ok(entries, t.s)
    ELSE With(readUShort(t.s), LAMBDA nameLen :
         IF ~nameLen.ok THEN nameLen
         ELSE With(readBytes(nameLen.s, nameLen.v), LAMBDA nameBytes :
              IF ~nameBytes.ok THEN nameBytes
              ELSE With(TextDecode(nameBytes.v), LAMBDA name :
                   With(TagCreate(t.v), LAMBDA c :
                   IF ~c.ok THEN Fail(c.err, nameBytes.s)
                   ELSE With(ReadPayload(t.v, nameBytes.s), LAMBDA r :
                        IF ~r.ok THEN r
                        ELSE With(CompoundSet(entries, name,
                                              [c.v EXCEPT !.value = r.v]),
                                  LAMBDA set : ReadCompoundTags(r.s, set))))))))

ReadPayload(type, s) ==
    CASE type = TagType_End    -> Ok(<<>>, s)
      [] type = TagType_Byte   -> readByte(s)
      [] type = TagType_Short  -> readShort(s)
      [] type = TagType_Int    -> readInt(s)
      [] type = TagType_Long   -> readLong(s)
      [] type = TagType_Float  -> readFloat(s)
      [] type = TagType_Double -> readDouble(s)
      [] type = TagType_ByteArray ->
            With(readInt(s), LAMBDA len :
            IF ~len.ok THEN len
            ELSE With(readBytes(len.s, len.v), LAMBDA bytes :
                     IF ~bytes.ok THEN bytes
                     ELSE Ok([i \in 1..Len(bytes.v) |-> ToInt8(bytes.v[i])],
                             bytes.s)))
      [] type = TagType_String ->
            With(readUShort(s), LAMBDA len :
            IF ~len.ok THEN len
            ELSE With(readBytes(len.s, len.v), LAMBDA bytes :
                     IF ~bytes.ok THEN bytes
                     ELSE Ok(TextDecode(bytes.v), bytes.s)))
      [] type = TagType_List ->
            With(readByte(s), LAMBDA typeId :
            IF ~typeId.ok THEN typeId
            ELSE With(readInt(typeId.s), LAMBDA count :
                 IF ~count.ok THEN count
                 ELSE With(ReadListTags(typeId.v, count.s, count.v, <<>>),
                           LAMBDA r :
                          IF r.ok
                          THEN Ok([listType |-> typeId.v, tags |-> r.v], r.s)
                          ELSE r)))
      [] type = TagType_Compound -> ReadCompoundTags(s, <<>>)
      [] type = TagType_IntArray ->
            With(readInt(s), LAMBDA len :
            IF ~len.ok THEN len
            ELSE IF ~Allocates(len.s, len.v, 4)
                 THEN Fail(Err("RangeError", len.v), len.s)
            ELSE ReadInts(len.s, len.v, <<>>))
      [] type = TagType_LongArray ->
            With(readInt(s), LAMBDA len :
            IF ~len.ok THEN len
            ELSE IF ~Allocates(len.s, len.v, 8)
                 THEN Fail(Err("RangeError", len.v), len.s)
            ELSE ReadLongs(len.s, len.v, <<>>))

\* ------------------------------------------------------------ TagIO
\* TagIO.read(buffer, isNetworkPacket): Ok(root, reader) or the error thrown.
TagIORead(buffer, isNetworkPacket) ==
    With(readByte(NewByteReader(buffer)), LAMBDA typeId :
    IF ~typeId.ok THEN typeId
    ELSE IF typeId.v # TagType_Compound
         THEN Fail(Err("RootNotCompound", typeId.v), typeId.s)
    ELSE With(IF isNetworkPacket THEN Ok(0, typeId.s) ELSE readUShort(typeId.s),
              LAMBDA nameLen :
         IF ~nameLen.ok THEN nameLen
         ELSE With(IF nameLen.v > 0 THEN readBytes(nameLen.s, nameLen.v)
                   ELSE Ok(<<>>, nameLen.s),
                   LAMBDA nameBytes :
              IF ~nameBytes.ok THEN nameBytes
              ELSE With(IF nameLen.v > 0 THEN TextDecode(nameBytes.v) ELSE <<>>,
                        LAMBDA name :
                   With(ReadPayload(TagType_Compound, nameBytes.s), LAMBDA r :
                       IF r.ok
                       THEN Ok([NewTagCompound(r.v) EXCEPT !.name = name], r.s)
                       ELSE r)))))

\* tag.name || "": null and the empty string give the empty string.
NameOrEmpty(name) == IF name = NULL THEN <<>> ELSE name

\* TagIO.write(tag, isNetworkPacket): [ok, err, s, t]; the bytes returned are
\* toUint8Array(s) when ok, and nothing is returned when not.
TagIOWrite(tag, isNetworkPacket) ==
    With(writeByte(NewByteWriter(DefaultCapacity), TagType_Compound),
         LAMBDA stream :
    IF ~isNetworkPacket
    THEN With(TextEncode(NameOrEmpty(tag.name)), LAMBDA nameBytes :
             WritePayload(tag, writeBytes(writeUShort(stream, Len(nameBytes)),
                                          nameBytes)))
    ELSE WritePayload(tag, stream))

\* What the caller of TagIO.write gets: the bytes, or NULL when it throws.
Returned(w) == IF w.ok THEN toUint8Array(w.s) ELSE NULL

\* ------------------------------------------------------------ compression
CompressionType_None == 0
CompressionType_GZip == 1
CompressionType_ZLib == 2
CompressionType_Raw  == 3

\* detectCompression(data), as written: (b0 >> 4) + 8 <= 7 is the test of the
\* window size.
detectCompression(data) ==
    IF Len(data) < 2 THEN CompressionType_None
    ELSE LET b0 == data[1]
             b1 == data[2]
         IN  IF b0 = 31 /\ b1 = 139 THEN CompressionType_GZip
             ELSE IF (b0 % 16) = 8
                     /\ LET windowSize == (b0 \div 16) + 8
                        IN  windowSize <= 7 /\ (b0 * 256 + b1) % 31 = 0
                  THEN CompressionType_ZLib
                  ELSE CompressionType_None

\* decompress with the test of None inverted.
decompress_Inverted(data) ==
    IF detectCompression(data) # CompressionType_None
    THEN [invoked |-> FALSE, format |-> "none", data |-> data]
    ELSE [invoked |-> TRUE, format |-> "deflate", data |-> data]

\* decompress(data): [invoked, format, data]. When detection gives None the
\* input is returned; otherwise decompressWithAlgorithm is called with the
\* format, and its result is the codec's.
decompress(data) ==
    With(detectCompression(data), LAMBDA type :
    IF type = CompressionType_None
    THEN [invoked |-> FALSE, format |-> "none", data |-> data]
    ELSE [invoked |-> TRUE,
          format |-> IF type = CompressionType_GZip THEN "gzip" ELSE "deflate",
          data |-> data])

\* TagIO.readAsync(buffer, isNetworkPacket). codec is what the streaming
\* decompressor gives for the buffer if it is called: Ok(bytes, <<>>) or a
\* failure.
TagIOReadAsync(buffer, isNetworkPacket, codec) ==
    With(decompress(buffer), LAMBDA d :
    IF ~d.invoked THEN TagIORead(d.data, isNetworkPacket)
    ELSE IF codec.ok THEN TagIORead(codec.v, isNetworkPacket)
    ELSE Fail(Err("Decompress", 0), <<>>))

\* ------------------------------------------------------------ byte runs
\* The bytes of the region buffer after the header are a sequence of runs:
\*   Pay(id, from, n)  the bytes from .. from+n-1 of the compressed stream id,
\*                     id = [fmt, raw, n]: the fmt-compression of the bytes
\*                     raw, n bytes long; the bytes themselves are the codec's.
\*   Fill(v, n)        n copies of the byte v, the one-byte stream of v
\* Adjacent runs that continue each other are merged, so equal sequences of
\* runs are equal bytes.
Stream(fmt, raw, n) == [fmt |-> fmt, raw |-> raw, n |-> n]
Pay(id, from, n) == [src |-> id, from |-> from, n |-> n]
Fill(v, n) == Pay(Stream("byte", <<v>>, 1), 0, n)
IsFill(r) == r.src.fmt = "byte"
FillByte(r) == r.src.raw[1]

RECURSIVE RunsLenFrom(_, _)
RunsLenFrom(rs, i) == IF i > Len(rs) THEN 0 ELSE rs[i].n + RunsLenFrom(rs, i + 1)
RunsLen(rs) == RunsLenFrom(rs, 1)

\* The first n bytes of rs, the runs before the i-th being taken already.
RECURSIVE TakeRunsFrom(_, _, _)
TakeRunsFrom(rs, i, n) ==
    IF n <= 0 \/ i > Len(rs) THEN SubSeq(rs, 1, i - 1)
    ELSE IF rs[i].n <= n THEN TakeRunsFrom(rs, i + 1, n - rs[i].n)
    ELSE Append(SubSeq(rs, 1, i - 1), [rs[i] EXCEPT !.n = n])
TakeRuns(rs, n) == TakeRunsFrom(rs, 1, n)

\* rs without its first n bytes, the runs before the i-th being dropped already.
RECURSIVE DropRunsFrom(_, _, _)
DropRunsFrom(rs, i, n) ==
    IF i > Len(rs) THEN <<>>
    ELSE IF n <= 0 THEN SubSeq(rs, i, Len(rs))
    ELSE IF rs[i].n <= n THEN DropRunsFrom(rs, i + 1, n - rs[i].n)
    ELSE <<[rs[i] EXCEPT !.n = @ - n,
                         !.from = IF IsFill(rs[i]) THEN 0 ELSE @ + n]>>
         \o SubSeq(rs, i + 1, Len(rs))
DropRuns(rs, n) == DropRunsFrom(rs, 1, n)

Continues(a, b) ==
    /\ a.src = b.src
    /\ ~IsFill(a) => b.from = a.from + a.n

\* rs with the runs that continue their predecessor merged into it; done is
\* the merged part, the i-th run the next to look at.
RECURSIVE NormFrom(_, _, _)
NormFrom(rs, i, done) ==
    IF i > Len(rs) THEN done
    ELSE IF done # <<>> /\ Continues(done[Len(done)], rs[i])
         THEN NormFrom(rs, i + 1,
                       [done EXCEPT ![Len(done)].n = @ + rs[i].n])
         ELSE NormFrom(rs, i + 1, Append(done, rs[i]))
Norm(rs) == NormFrom(rs, 1, <<>>)

\* The n bytes at offset off.
Slice(rs, off, n) == Norm(TakeRuns(DropRuns(rs, off), n))

\* The runs with the bytes at off replaced by new (TypedArray.set, the
\* DataView setters).
SetRuns(rs, off, new) ==
    Norm(TakeRuns(rs, off) \o new \o DropRuns(rs, off + RunsLen(new)))

BytesToRuns(bytes) == Norm([i \in 1..Len(bytes) |-> Fill(bytes[i], 1)])

\* The byte values of runs none of which is a codec's.
Concrete(rs) == \A i \in 1..Len(rs) : IsFill(rs[i])
RECURSIVE RunsToBytes(_)
RunsToBytes(rs) ==
    IF rs = <<>> THEN <<>>
    ELSE [i \in 1..Head(rs).n |-> FillByte(Head(rs))] \o RunsToBytes(Tail(rs))

\* decompressWithAlgorithm(rawData, format) on a slice of the buffer: the
\* streaming codec gives back raw for the whole fmt-stream of raw, and throws
\* for any other bytes.
decompressWithAlgorithm(rawData, format) ==
    IF /\ Len(rawData) = 1
       /\ ~IsFill(rawData[1])
       /\ rawData[1].from = 0
       /\ rawData[1].n = rawData[1].src.n
       /\ rawData[1].src.fmt = format
    THEN Ok(rawData[1].src.raw, <<>>)
    ELSE Fail(Err("Decompress", 0), <<>>)

\* compress giving a gzip stream, whatever the format asked.
compress_AsGzip(data, format, n) == <<Pay(Stream("gzip", data, n), 0, n)>>

\* compress(data, 'deflate') when the codec gives n bytes.
compress(data, format, n) == <<Pay(Stream(format, data, n), 0, n)>>

\* ------------------------------------------------------------ RegionReader
SectorSize      == 4096
HeaderSectors   == 2
GridSize        == 32
MaxSectorOffset == 16777215
MaxSectorCount  == 255
HeaderSize      == HeaderSectors * SectorSize

\* The buffer of a RegionReader (uint8, and view over the same bytes) is the
\* record [loc, ts, data]: the location table and the timestamp table, each
\* the function from the slots with a nonzero 32-bit entry to the entry read
\* as getInt32 reads it, and the runs of the bytes from HeaderSize on. The
\* buffers modelled hold the whole header.
EmptyTable == [i \in {} |-> 0]
TableGet(t, i) == IF i \in DOMAIN t THEN t[i] ELSE 0
TableSet(t, i, v) ==
    IF v = 0 THEN [j \in (DOMAIN t) \ {i} |-> t[j]]
    ELSE [j \in (DOMAIN t) \cup {i} |-> IF j = i THEN v ELSE t[j]]

\* new RegionReader(buffer): uint8 and view are the bytes given.
NewRegionReader(buffer) == buffer

byteLength(u) == HeaderSize + RunsLen(u.data)
getData(u) == u

CeilDiv(a, b) == (a + b - 1) \div b

\* The lowest bit only of the 32-bit two's complement pattern of v.
And31_LowBit(v) == (IF v < 0 THEN (v + 2147483647) + 1 ELSE v) % 2

\* v & 31: the low five bits of the 32-bit two's complement pattern of v; a
\* negative v has the pattern of v + 2^32, whose low 31 bits are v + 2^31.
And31(v) == (IF v < 0 THEN (v + 2147483647) + 1 ELSE v) % GridSize

\* (x & 31) + (z & 31) * 32
SlotIndex(x, z) == And31(x) + And31(z) * GridSize

getOffsetInfo(u, x, z) == TableGet(u.loc, SlotIndex(x, z))

hasChunk(u, x, z) == getOffsetInfo(u, x, z) # 0

\* info >>> 8 and info & 0xFF of a signed 32-bit info.
getLocation(u, x, z) ==
    With(getOffsetInfo(u, x, z), LAMBDA info :
        [sectorOffset |-> IF info < 0 THEN (info \div 256) + 16777216
                          ELSE info \div 256,
         sectorCount |-> info % 256])

\* The entry without the shift of the sector offset.
PackLocation_Unshifted(sectorOffset, sectorCount) ==
    sectorOffset + (sectorCount % 256)

\* (sectorOffset << 8) | (sectorCount & 0xFF) as the signed 32-bit integer
\* setInt32 stores.
PackLocation(sectorOffset, sectorCount) ==
    (IF sectorOffset >= 8388608 THEN sectorOffset - 16777216 ELSE sectorOffset) * 256
        + (sectorCount % 256)

\* setLocation(x, z, sectorOffset, sectorCount): Ok(<<>>, buffer) or the
\* overflow error.
setLocation(u, x, z, sectorOffset, sectorCount) ==
    IF sectorOffset > MaxSectorOffset THEN Fail(Err("FileTooLarge", sectorOffset), u)
    ELSE IF sectorCount > MaxSectorCount THEN Fail(Err("ChunkTooLarge", sectorCount), u)
    ELSE Ok(<<>>, [u EXCEPT !.loc = TableSet(u.loc, SlotIndex(x, z),
                                             PackLocation(sectorOffset, sectorCount))])

\* expandBuffer without newUint8.set(this.uint8): the new buffer stays zero
\* after the header.
expandBuffer_NoCopy(u, newSize) ==
    [u EXCEPT !.data = <<Fill(0, newSize - HeaderSize)>>]

\* expandBuffer with a new buffer that is not zero-filled.
expandBuffer_Unfilled(u, newSize) ==
    [u EXCEPT !.data = Norm(u.data \o <<Fill(255, newSize - byteLength(u))>>)]

\* expandBuffer(newSize): a zero-filled buffer with the old bytes copied in.
expandBuffer(u, newSize) ==
    [u EXCEPT !.data = Norm(u.data \o <<Fill(0, newSize - byteLength(u))>>)]

\* The result of readChunk: a document, null, or a rejected promise.
ReadDoc(tag) == [kind |-> "doc", tag |-> tag]
ReadNull == [kind |-> "null", tag |-> NULL]
ReadRejected == [kind |-> "rejected", tag |-> NULL]
\* The record header lies in bytes of a compressed stream, which the model
\* does not hold.
ReadUnmodelled == [kind |-> "unmodelled", tag |-> NULL]

readChunk(u, x, z) ==
    IF ~hasChunk(u, x, z) THEN ReadNull
    ELSE With(getLocation(u, x, z).sectorOffset, LAMBDA sectorOffset :
    IF sectorOffset < 2 THEN ReadNull
    ELSE With(sectorOffset * SectorSize, LAMBDA fileOffset :
    IF fileOffset >= byteLength(u) THEN ReadNull
    \* view.getInt32(fileOffset) and view.getUint8(fileOffset + 4) throw a
    \* RangeError outside the view, and no try encloses them.
    ELSE IF fileOffset + 4 > byteLength(u) THEN ReadRejected
    ELSE IF fileOffset + 4 >= byteLength(u) THEN ReadRejected
    ELSE With(Slice(u.data, fileOffset - HeaderSize, 5), LAMBDA header :
    IF ~Concrete(header) THEN ReadUnmodelled
    ELSE With(RunsToBytes(header), LAMBDA h :
         With(Int32BE(SubSeq(h, 1, 4)), LAMBDA length :
         With(h[5], LAMBDA compressionType :
         With(length - 1, LAMBDA dataLength :
    \* fileOffset + 5 + dataLength > byteLength
    IF dataLength <= 0 \/ dataLength > byteLength(u) - fileOffset - 5 THEN ReadNull
    ELSE With(Slice(u.data, fileOffset - HeaderSize + 5, dataLength),
              LAMBDA rawData :
    IF compressionType \notin {1, 2, 3} THEN ReadNull
    ELSE IF compressionType = 3 /\ ~Concrete(rawData) THEN ReadUnmodelled
    ELSE With(CASE compressionType = 1 -> decompressWithAlgorithm(rawData, "gzip")
                [] compressionType = 2 -> decompressWithAlgorithm(rawData, "deflate")
                [] OTHER -> Ok(RunsToBytes(rawData), <<>>),
              LAMBDA cleanData :
         IF ~cleanData.ok THEN ReadNull
         ELSE With(TagIORead(cleanData.v, FALSE), LAMBDA r :
                  IF r.ok THEN ReadDoc(r.v) ELSE ReadNull))))))))))

\* The inner loop of getPresentChunks: the x of 0..31 with hasChunk(x, z).
RowChunks(u, z) ==
    SelectSeq([i \in 1..GridSize |-> [x |-> i - 1, z |-> z]],
              LAMBDA c : hasChunk(u, c.x, c.z))

\* The outer loop from z on.
RECURSIVE PresentFrom(_, _)
PresentFrom(u, z) ==
    IF z >= GridSize THEN <<>> ELSE RowChunks(u, z) \o PresentFrom(u, z + 1)

\* getPresentChunks(): z outer, x inner.
getPresentChunks(u) == PresentFrom(u, 0)

\* loadChunk(x, z) of the editor, the caller of readChunk: the chunk is shown,
\* or errorMsg is set to the one message for a null, or to the exception.
loadChunk(u, x, z) ==
    With(readChunk(u, x, z), LAMBDA chunk :
        CASE chunk.kind = "doc" -> [shown |-> TRUE, errorMsg |-> "none"]
          [] chunk.kind = "null" -> [shown |-> FALSE, errorMsg |-> "corrupt or empty"]
          [] OTHER -> [shown |-> FALSE, errorMsg |-> chunk.kind])

\* The result with the timestamp table cleared.
WriteResult_NoTimestamps(u, outcome, err, inPlace) ==
    [u |-> [u EXCEPT !.ts = EmptyTable], outcome |-> outcome, err |-> err,
     inPlace |-> inPlace]

\* The result of writeChunk: [u, outcome, err, inPlace]. outcome is "done",
\* or "thrown" with the buffer as the throw leaves it.
WriteResult(u, outcome, err, inPlace) ==
    [u |-> u, outcome |-> outcome, err |-> err, inPlace |-> inPlace]

\* Step 6 of writeChunk and the timestamp: the length, the compression type
\* and the data are written at writeOffset, each setter throwing a RangeError
\* outside the buffer and leaving what was written before it.
writeRecord(u, x, z, writeOffset, dataLength, compressedData, timestamp, inPlace) ==
    With(writeOffset - HeaderSize, LAMBDA at :
    IF writeOffset + 4 > byteLength(u)
    THEN WriteResult(u, "thrown", Err("RangeError", 0), inPlace)
    ELSE With([u EXCEPT !.data = SetRuns(@, at, BytesToRuns(BytesBE(dataLength, 4)))],
              LAMBDA u3 :
    IF writeOffset + 4 >= byteLength(u)
    THEN WriteResult(u3, "thrown", Err("RangeError", 0), inPlace)
    ELSE With([u3 EXCEPT !.data = SetRuns(@, at + 4, <<Fill(2, 1)>>)], LAMBDA u4 :
    IF writeOffset + 4 + dataLength > byteLength(u)
    THEN WriteResult(u4, "thrown", Err("RangeError", 0), inPlace)
    ELSE With([u4 EXCEPT !.data = SetRuns(@, at + 5, compressedData)], LAMBDA u5 :
         WriteResult([u5 EXCEPT !.ts = TableSet(@, SlotIndex(x, z), timestamp)],
                     "done", NoErr, inPlace)))))

\* writeChunk(x, z, tag) from the point where compress has given compressedData
\* to the end, with Date.now() / 1000 floored to timestamp.
writeChunkResume(u, x, z, compressedData, timestamp) ==
    With(RunsLen(compressedData) + 1, LAMBDA dataLength :
    With(CeilDiv(4 + dataLength, SectorSize), LAMBDA sectorsNeeded :
    With(getLocation(u, x, z), LAMBDA old :
    IF old.sectorOffset >= 2 /\ sectorsNeeded <= old.sectorCount
    THEN writeRecord(u, x, z, old.sectorOffset * SectorSize, dataLength,
                     compressedData, timestamp, TRUE)
    ELSE With(CeilDiv(byteLength(u), SectorSize), LAMBDA endSector :
         With(endSector * SectorSize, LAMBDA writeOffset :
         With(writeOffset + sectorsNeeded * SectorSize, LAMBDA newFileSize :
         With(IF newFileSize > byteLength(u) THEN expandBuffer(u, newFileSize)
              ELSE u,
              LAMBDA u1 :
         With(setLocation(u1, x, z, endSector, sectorsNeeded), LAMBDA located :
             IF ~located.ok THEN WriteResult(u1, "thrown", located.err, FALSE)
             ELSE writeRecord(located.s, x, z, writeOffset, dataLength,
                              compressedData, timestamp, FALSE)))))))))

\* ------------------------------------------------------------ bounds
\* The number of writeChunk calls of a behaviour, and of those in flight.
MaxCalls == 2
\* The length of a short compressed stream.
SmallLen == 20
\* The bytes a buffer may hold after its last whole sector.
MaxTail == 6
\* The timestamps of the tables of a loaded file, and Date.now() / 1000.
FileTime == 500
NowTime == 1000

\* ------------------------------------------------------------ documents
Str_a == <<97>>
Str_s == <<115>>
Str_l == <<108>>
Str_BOM_a == <<65279, 97>>

Named(tag, name) == [tag EXCEPT !.name = name]

\* {a: Int 7}, root name "".
DocA == Named(NewTagCompound(CompoundSet(<<>>, Str_a, NewTagInt(7))), <<>>)
\* {s: String U+FEFF "a"}, root name "".
DocB == Named(NewTagCompound(CompoundSet(<<>>, Str_s, NewTagString(Str_BOM_a))), <<>>)
\* {l: List [Int 1, String "a"]}: cannot be written.
DocMixed ==
    Named(NewTagCompound(CompoundSet(<<>>, Str_l,
              NewTagList(TagType_End, <<NewTagInt(1), NewTagString(Str_a)>>))), <<>>)

RegionDocs == <<DocA, DocB, DocMixed>>

\* The (x, z) given to readChunk and writeChunk: two slots, one of them also
\* by coordinates outside 0..31.
Coords == {<<0, 0>>, <<37, 5>>}

\* The lengths the codec may give a compressed stream: the record fills one
\* sector exactly, is one byte longer, is one byte longer than 255 sectors.
CompressedLens ==
    {SectorSize - 5, SectorSize - 4, MaxSectorCount * SectorSize - 4}

\* ------------------------------------------------------------ containers
\* A chunk record: the length field, the compression type, the payload, and
\* zero bytes up to size.
Record(length, type, payload, size) ==
    Norm(BytesToRuns(BytesBE(length, 4) \o <<type>>) \o payload
         \o (IF size > 5 + RunsLen(payload)
             THEN <<Fill(0, size - 5 - RunsLen(payload))>> ELSE <<>>))

GoodRecord(type, payload, sectors) ==
    Record(RunsLen(payload) + 1, type, payload, sectors * SectorSize)

NbtOf(tag) == toUint8Array(TagIOWrite(tag, FALSE).s)

Table(pairs) == [i \in {p[1] : p \in pairs} |-> (CHOOSE p \in pairs : p[1] = i)[2]]

\* new RegionReader(new ArrayBuffer(8192)).
EmptyContainer == [loc |-> EmptyTable, ts |-> EmptyTable, data |-> <<>>]

\* A well-formed file of three chunks, (0,0) in sectors 2-3 (zlib), (5,5) in
\* sector 4 (gzip), (31,31) in sector 5 (uncompressed), and tail bytes after
\* the last sector.
WellFormedContainer(tail) ==
    [loc |-> Table({<<SlotIndex(0, 0), PackLocation(2, 2)>>,
                    <<SlotIndex(5, 5), PackLocation(4, 1)>>,
                    <<SlotIndex(31, 31), PackLocation(5, 1)>>}),
     ts |-> Table({<<SlotIndex(0, 0), FileTime>>,
                   <<SlotIndex(5, 5), FileTime>>,
                   <<SlotIndex(31, 31), FileTime>>}),
     data |-> Norm(GoodRecord(2, compress(NbtOf(DocA), "deflate", SectorSize + SmallLen), 2)
                   \o GoodRecord(1, compress(NbtOf(DocA), "gzip", SmallLen), 1)
                   \o GoodRecord(3, BytesToRuns(NbtOf(DocA)), 1)
                   \o (IF tail > 0 THEN <<Fill(0, tail)>> ELSE <<>>))]

\* A file whose slot (0,0) is at sector 2, of which the buffer holds only
\* tail bytes: the start of a record of SmallLen payload bytes.
TruncatedContainer(tail) ==
    [loc |-> Table({<<SlotIndex(0, 0), PackLocation(2, 1)>>}),
     ts |-> Table({<<SlotIndex(0, 0), FileTime>>}),
     data |-> TakeRuns(GoodRecord(2, compress(NbtOf(DocA), "deflate", SmallLen), 1), tail)]

\* A file with one slot, (7, 3), damaged in the k-th way:
\*   1, 2   sector offset 0 and 1
\*   3      a sector offset beyond the buffer
\*   4..6   length field 0, 1, -5
\*   7      a length beyond the buffer
\*   8..10  compression type 0, 4, 255
\*   11     type 2 and bytes that are no zlib stream
\*   12     type 1 and a zlib stream
\*   13     type 3 and bytes whose first is not 10
\*   14     type 3 and a document cut short
\*   15     type 2 and a zlib stream of bytes that are no document
Damages == 15
DamagedContainer(k) ==
    With(NbtOf(DocA), LAMBDA nbt :
    With(compress(nbt, "deflate", SmallLen), LAMBDA good :
    [loc |-> Table({<<SlotIndex(7, 3),
                      PackLocation(CASE k = 1 -> 0 [] k = 2 -> 1 [] k = 3 -> 100
                                     [] OTHER -> 2, 1)>>}),
     ts |-> Table({<<SlotIndex(7, 3), FileTime>>}),
     data |-> CASE k = 4 -> Record(0, 2, good, SectorSize)
                [] k = 5 -> Record(1, 2, good, SectorSize)
                [] k = 6 -> Record(-5, 2, good, SectorSize)
                [] k = 7 -> Record(100 * SectorSize, 2, good, SectorSize)
                [] k = 8 -> Record(SmallLen + 1, 0, good, SectorSize)
                [] k = 9 -> Record(SmallLen + 1, 4, good, SectorSize)
                [] k = 10 -> Record(SmallLen + 1, 255, good, SectorSize)
                [] k = 11 -> GoodRecord(2, <<Fill(171, SmallLen)>>, 1)
                [] k = 12 -> GoodRecord(1, good, 1)
                [] k = 13 -> GoodRecord(3, <<Fill(200, 2)>>, 1)
                [] k = 14 -> GoodRecord(3, BytesToRuns(SubSeq(nbt, 1, Len(nbt) - 2)), 1)
                [] k = 15 -> GoodRecord(2, compress(<<200, 0>>, "deflate", SmallLen), 1)
                [] OTHER -> GoodRecord(2, good, 1)]))

\* The buffers of the files that are well formed.
Containers ==
    <<EmptyContainer, WellFormedContainer(0), WellFormedContainer(MaxTail)>>

\* The buffers of the files that are not.
DamagedContainers ==
    [k \in 1..Damages |-> DamagedContainer(k)]
        \o [tail \in 1..MaxTail |-> TruncatedContainer(tail)]

\* ------------------------------------------------------------ state
\* uint8    the buffer of the RegionReader
\* pending  the writeChunk calls suspended in compress, oldest first
\* written  for each slot, the tag of the last writeChunk that completed
\* last     the last call that returned, threw or was suspended
\* start    the buffer the RegionReader was constructed from
\* calls    the number of writeChunk calls made
\* cin      the input of a codec operation
\* cout     its result
\* phase    "region", or "input" / "output" of a codec operation
VARIABLES uint8, pending, written, last, start, calls, cin, cout, phase

vars == <<uint8, pending, written, last, start, calls, cin, cout, phase>>
regionVars == <<uint8, pending, written, last, start, calls>>
codecVars == <<cin, cout>>

NoCall == [op |-> "none", x |-> 0, z |-> 0, outcome |-> "none", err |-> NoErr,
           inPlace |-> FALSE, result |-> ReadNull]
NoCodec == [op |-> "none"]

InitRegion(containers) ==
    /\ \E i \in 1..Len(containers) : uint8 = NewRegionReader(containers[i])
    /\ start = uint8
    /\ pending = <<>>
    /\ written = EmptyTable
    /\ last = NoCall
    /\ calls = 0
    /\ cin = NoCodec
    /\ cout = NoCodec
    /\ phase = "region"

Init == InitRegion(Containers)
InitDamaged == InitRegion(DamagedContainers)

\* writeChunk(x, z, tag) up to the await of compress: TagIO.write throws, or
\* the call is suspended.
WriteChunkStart(x, z, tag) ==
    /\ phase = "region"
    /\ calls < MaxCalls
    /\ calls' = calls + 1
    /\ \E w \in {TagIOWrite(tag, FALSE)} :
          IF w.ok
          THEN /\ pending' = Append(pending, [x |-> x, z |-> z, tag |-> tag,
                                              nbtData |-> toUint8Array(w.s)])
               /\ last' = [NoCall EXCEPT !.op = "writeChunk", !.x = x, !.z = z,
                                         !.outcome = "suspended"]
          ELSE /\ pending' = pending
               /\ last' = [NoCall EXCEPT !.op = "writeChunk", !.x = x, !.z = z,
                                         !.outcome = "thrown", !.err = w.err]
    /\ UNCHANGED <<uint8, written, start, codecVars, phase>>

RemoveAt(q, i) == SubSeq(q, 1, i - 1) \o SubSeq(q, i + 1, Len(q))

\* The rest of the i-th suspended writeChunk, the codec having given n bytes.
WriteChunkResume(i, n, timestamp) ==
    /\ phase = "region"
    /\ i \in 1..Len(pending)
    /\ \E c \in {pending[i]} :
       \E r \in {writeChunkResume(uint8, c.x, c.z,
                                  compress(c.nbtData, "deflate", n), timestamp)} :
           /\ uint8' = r.u
           /\ written' = IF r.outcome = "done"
                         THEN [j \in (DOMAIN written) \cup {SlotIndex(c.x, c.z)} |->
                                  IF j = SlotIndex(c.x, c.z) THEN c.tag ELSE written[j]]
                         ELSE written
           /\ last' = [NoCall EXCEPT !.op = "writeChunk", !.x = c.x, !.z = c.z,
                                     !.outcome = r.outcome, !.err = r.err,
                                     !.inPlace = r.inPlace]
    /\ pending' = RemoveAt(pending, i)
    /\ UNCHANGED <<start, calls, codecVars, phase>>

ReadCoords == Coords \cup {<<i % GridSize, i \div GridSize>> : i \in DOMAIN uint8.loc}

\* readChunk(x, z): the bytes are read and handed to the codec before the
\* call is suspended, so the result is that of the buffer at the call.
ReadChunk(x, z) ==
    /\ phase = "region"
    /\ \E result \in {readChunk(uint8, x, z)} :
          last' = [NoCall EXCEPT !.op = "readChunk", !.x = x, !.z = z,
                                 !.outcome = "done", !.result = result]
    /\ UNCHANGED <<uint8, pending, written, start, calls, codecVars, phase>>

Next ==
    \/ \E c \in Coords, d \in 1..Len(RegionDocs) :
          WriteChunkStart(c[1], c[2], RegionDocs[d])
    \/ \E i \in 1..MaxCalls, n \in CompressedLens : WriteChunkResume(i, n, NowTime)
    \/ \E c \in ReadCoords : ReadChunk(c[1], c[2])

Spec == Init /\ [][Next]_vars

\* The same operations on the buffers of damaged files.
SpecDamaged == InitDamaged /\ [][Next]_vars

\* ------------------------------------------------------------ codec inputs
\* The zero bytes after a hand-made list header, and the largest element
\* count of one.
TailLen == 24
MaxCount == 2

Str_root == <<114, 111, 111, 116>>
Str_e_acute == <<233>>
Str_euro == <<8364>>
Str_pair == <<55357, 56832>>
Str_a_BOM == <<97, 65279>>

IntList == NewTagList(TagType_End, <<NewTagInt(1), NewTagInt(-1)>>)
MixedList == NewTagList(TagType_End, <<NewTagInt(1), NewTagString(Str_a)>>)

\* Tags of every kind: the ends of the ranges, the empty values, nested ones,
\* and lists of mixed kinds.
CodecTags ==
    <<NewTagByte(0), NewTagByte(127), NewTagByte(-128),
      NewTagShort(32767), NewTagShort(-32768),
      NewTagInt(0), NewTagInt(2147483647), NewTagInt(-2147483647 - 1),
      NewTagLong(<<0, 0>>), NewTagLong(<<-1, -1>>),
      NewTagLong(<<2147483647, -1>>), NewTagLong(<<-2147483647 - 1, 0>>),
      NewTagFloat(0), NewTagFloat(1069547520), NewTagFloat(-2147483647 - 1),
      NewTagFloat(2139095040), NewTagFloat(2143289344),
      NewTagDouble(<<0, 0>>), NewTagDouble(<<1073217536, 0>>),
      NewTagDouble(<<2146959360, 0>>),
      NewTagByteArray(<<>>), NewTagByteArray(<<1, -1, 127, -128>>),
      NewTagString(<<>>), NewTagString(Str_a), NewTagString(Str_e_acute),
      NewTagString(Str_euro), NewTagString(Str_pair), NewTagString(Str_a_BOM),
      NewTagString(Str_BOM_a),
      NewTagList(TagType_End, <<>>), NewTagList(TagType_Int, <<>>), IntList,
      NewTagList(TagType_End, <<NewTagString(Str_a), NewTagString(<<>>)>>),
      NewTagList(TagType_End, <<IntList, NewTagList(TagType_End, <<>>)>>),
      NewTagList(TagType_End, <<NewTagCompound(<<>>),
                                NewTagCompound(CompoundSet(<<>>, Str_a, NewTagInt(7)))>>),
      MixedList,
      NewTagList(TagType_End, <<IntList, MixedList>>),
      NewTagCompound(<<>>),
      NewTagCompound(CompoundSet(CompoundSet(<<>>, Str_s, NewTagString(Str_a)),
                                 Str_a, NewTagInt(7))),
      NewTagCompound(CompoundSet(<<>>, Str_l, IntList)),
      NewTagCompound(CompoundSet(<<>>, Str_l, MixedList)),
      NewTagIntArray(<<>>), NewTagIntArray(<<1, -1, 2147483647>>),
      NewTagLongArray(<<>>), NewTagLongArray(<<<<0, 1>>, <<-1, -1>>>>)>>

\* The names of an entry.
CodecNames == <<<<>>, Str_a, Str_e_acute, Str_BOM_a>>

\* The names of a root: null, "", "root", U+FEFF "a".
RootNames == <<NULL, <<>>, Str_root, Str_BOM_a>>

\* The documents: each compound of CodecTags under each root name.
CodecDocs ==
    LET compounds == SelectSeq(CodecTags, LAMBDA t : t.type = TagType_Compound)
    IN  [i \in 1..(Len(compounds) * Len(RootNames)) |->
            Named(compounds[((i - 1) \div Len(RootNames)) + 1],
                  RootNames[((i - 1) % Len(RootNames)) + 1])]

\* What follows the first byte of an input of TagIO.read.
Rests == <<<<>>, <<0, 0, 0>>>>

\* The bytes of a standard-mode document {l: List} whose list header names
\* the element type and the count, followed by TailLen zero bytes.
ListDocBytes(elemType, count) ==
    <<TagType_Compound, 0, 0, TagType_List, 0, 1, 108, elemType>>
        \o BytesBE(count, 4) \o [i \in 1..TailLen |-> 0]

\* The list headers: every type id, an unknown one, and one above 127.
ElemTypes == (TagType_End..(TagType_LongArray + 1)) \cup {255}

\* The first bytes given to detectCompression, and what follows the second.
FirstBytes == {0, 8, 10, 24, 31, 40, 120, 136, 139, 248, 255}
DetectTails == <<<<>>, <<0>>, <<255>>>>

\* ------------------------------------------------------------ codec operations
InitCodec ==
    /\ uint8 = EmptyContainer
    /\ start = uint8
    /\ pending = <<>>
    /\ written = EmptyTable
    /\ last = NoCall
    /\ calls = 0
    /\ cout = NoCodec
    /\ phase = "input"
    /\ \/ \E i \in 1..Len(CodecTags), n \in 1..Len(CodecNames) :
             cin = [op |-> "tag", name |-> CodecNames[n], tag |-> CodecTags[i]]
       \/ \E i \in 1..Len(CodecDocs) : cin = [op |-> "doc", tag |-> CodecDocs[i]]
       \/ \E i \in 1..Len(CodecDocs), network \in BOOLEAN :
             cin = [op |-> "async", tag |-> CodecDocs[i], network |-> network]
       \/ \E b \in 0..255, r \in 1..Len(Rests), network \in BOOLEAN :
             cin = [op |-> "bytes", bytes |-> <<b>> \o Rests[r], network |-> network]
       \/ \E e \in ElemTypes, count \in (-1)..MaxCount :
             cin = [op |-> "bytes", bytes |-> ListDocBytes(e, count),
                    network |-> FALSE]
       \/ \E b0 \in FirstBytes, b1 \in 0..255, t \in 1..Len(DetectTails) :
             cin = [op |-> "detect", bytes |-> <<b0, b1>> \o DetectTails[t]]
       \/ \E short \in {<<>>} \cup {<<b>> : b \in FirstBytes} :
             cin = [op |-> "detect", bytes |-> short]

Output(result) ==
    /\ phase = "input"
    /\ phase' = "output"
    /\ cout' = result
    /\ UNCHANGED <<regionVars, cin>>

\* A tag is encoded with its id and name, as the entry of a compound is, and
\* decoded as the entries of a compound are.
TagRoundTrip ==
    /\ cin.op = "tag"
    /\ \E w \in {WritePayload(NewTagCompound(CompoundSet(<<>>, cin.name, cin.tag)),
                              NewByteWriter(DefaultCapacity))} :
          Output([op |-> "tag", ok |-> w.ok, err |-> w.err,
                  returned |-> Returned(w),
                  tag |-> w.t,
                  read |-> IF w.ok
                           THEN ReadPayload(TagType_Compound,
                                            NewByteReader(toUint8Array(w.s)))
                           ELSE Fail(w.err, NewByteReader(<<>>))])

\* TagIO.read(TagIO.write(t, mode), mode) in both modes.
DocRoundTrip ==
    /\ cin.op = "doc"
    /\ \E std \in {TagIOWrite(cin.tag, FALSE)} :
       \E net \in {TagIOWrite(cin.tag, TRUE)} :
          Output([op |-> "doc", ok |-> std.ok /\ net.ok, err |-> std.err,
                  tag |-> std.t,
                  stdBytes |-> Returned(std), netBytes |-> Returned(net),
                  stdRead |-> IF std.ok THEN TagIORead(toUint8Array(std.s), FALSE)
                              ELSE Fail(std.err, NewByteReader(<<>>)),
                  netRead |-> IF net.ok THEN TagIORead(toUint8Array(net.s), TRUE)
                              ELSE Fail(net.err, NewByteReader(<<>>))])

\* TagIO.readAsync(TagIO.write(t, mode), mode) next to TagIO.read of the same
\* bytes; a decompressor given the bytes of a document throws.
DocReadAsync ==
    /\ cin.op = "async"
    /\ \E w \in {TagIOWrite(cin.tag, cin.network)} :
       \E bytes \in {toUint8Array(w.s)} :
       \E thrown \in {Fail(Err("Decompress", 0), NewByteReader(<<>>))} :
          Output([op |-> "async", ok |-> w.ok, bytes |-> Returned(w),
                  type |-> detectCompression(bytes),
                  invoked |-> decompress(bytes).invoked,
                  async |-> IF w.ok THEN TagIOReadAsync(bytes, cin.network, thrown)
                            ELSE Fail(w.err, NewByteReader(<<>>)),
                  sync |-> IF w.ok THEN TagIORead(bytes, cin.network)
                           ELSE Fail(w.err, NewByteReader(<<>>))])

\* TagIO.read(bytes, mode).
ReadBytes ==
    /\ cin.op = "bytes"
    /\ Output([op |-> "bytes", read |-> TagIORead(cin.bytes, cin.network)])

\* detectCompression(bytes).
DetectCompression ==
    /\ cin.op = "detect"
    /\ Output([op |-> "detect", type |-> detectCompression(cin.bytes)])

\* decompress(bytes) up to the call of the decompressor.
Decompress ==
    /\ cin.op = "detect"
    /\ Output([op |-> "decompress", type |-> detectCompression(cin.bytes),
               result |-> decompress(cin.bytes)])

NextCodec ==
    \/ TagRoundTrip
    \/ DocRoundTrip
    \/ DocReadAsync
    \/ ReadBytes
    \/ DetectCompression
    \/ Decompress

SpecCodec == InitCodec /\ [][NextCodec]_vars

\* ------------------------------------------------------------ decoder inputs
\* The reads made of one reader, and the calls of set made on one compound.
MaxReads == 3
MaxSets == 3

Zeros(n) == [i \in 1..n |-> 0]

\* Type ids no tag class has; those above 127 are negative once read.
UnknownIds == {13, 14, 99, 127, 128, 200, 255}

\* The zero bytes that follow a length field.
Remains == {0, 3, 7}

\* Length fields: small ones, those next to 2 GiB and 4 GiB of Int32, and the
\* largest Int32.
AskedLengths == {1, 2, 4, 8, 536870912, 536870913, 1073741825, 2147483647}

\* A payload handed to the decoder of a tag of the type, in an engine. id is
\* the type id the bytes name and asked the length or count they ask for (0
\* where the family has none).
DecodeInput(family, type, bytes, id, asked, maxMiB) ==
    [op |-> "decode", family |-> family, type |-> type, bytes |-> bytes,
     id |-> id, asked |-> asked, maxMiB |-> maxMiB]

\* A child of an unknown type id named "a" in a compound.
UnknownChildInputs ==
    {DecodeInput("unknownChild", TagType_Compound,
                 <<id, 0, 1, 97>> \o Zeros(r) \o <<TagType_End>>, id, 0, m) :
        id \in UnknownIds, r \in Remains, m \in EngineMaxMiB}

\* A list that declares an unknown element type id, of every count.
UnknownListInputs ==
    {DecodeInput("unknownList", TagType_List,
                 <<x[1]>> \o BytesBE(x[2], 4) \o Zeros(x[3]), x[1], x[2],
                 LargestEngineMiB) :
        x \in UnknownIds \X ((-1)..MaxCount) \X Remains}

\* length * width bytes are more than the r that remain.
AsksMore(length, width, r) == length > r \div width

\* A length or count field that asks for more than remains.
TruncatedInputs ==
    {DecodeInput("string", TagType_String,
                 BytesBE(x[1], 2) \o Zeros(x[2]), TagType_String, x[1], x[3]) :
        x \in {y \in {4, 8, 65535} \X Remains \X EngineMaxMiB :
                  AsksMore(y[1], 1, y[2])}}
    \cup
    {DecodeInput("childName", TagType_Compound,
                 <<TagType_Byte>> \o BytesBE(x[1], 2) \o Zeros(x[2]),
                 TagType_Byte, x[1], x[3]) :
        x \in {y \in {4, 8, 65535} \X Remains \X EngineMaxMiB :
                  AsksMore(y[1], 1, y[2])}}
    \cup
    {DecodeInput("byteArray", TagType_ByteArray,
                 BytesBE(x[1], 4) \o Zeros(x[2]), TagType_ByteArray, x[1], x[3]) :
        x \in {y \in AskedLengths \X Remains \X EngineMaxMiB :
                  AsksMore(y[1], 1, y[2])}}
    \cup
    {DecodeInput("intArray", TagType_IntArray,
                 BytesBE(x[1], 4) \o Zeros(x[2]), TagType_IntArray, x[1], x[3]) :
        x \in {y \in AskedLengths \X Remains \X EngineMaxMiB :
                  AsksMore(y[1], 4, y[2])}}
    \cup
    {DecodeInput("longArray", TagType_LongArray,
                 BytesBE(x[1], 4) \o Zeros(x[2]), TagType_LongArray, x[1], x[3]) :
        x \in {y \in AskedLengths \X Remains \X EngineMaxMiB :
                  AsksMore(y[1], 8, y[2])}}
    \cup
    {DecodeInput("list", TagType_List,
                 <<TagType_Byte>> \o BytesBE(x[1], 4) \o Zeros(x[2]),
                 TagType_Byte, x[1], x[3]) :
        x \in {y \in {4, 8, 2147483647} \X Remains \X EngineMaxMiB :
                  AsksMore(y[1], 1, y[2])}}
    \cup
    {DecodeInput("list", TagType_List,
                 <<TagType_Int>> \o BytesBE(x[1], 4) \o Zeros(x[2]),
                 TagType_Int, x[1], x[3]) :
        x \in {y \in {1, 2, 2147483647} \X Remains \X EngineMaxMiB :
                  AsksMore(y[1], 4, y[2])}}

\* Compounds whose bytes end before the End marker: {}, {a: Byte 5} and
\* {a: Byte 5, b: Int 7}.
NoEndInputs ==
    {DecodeInput("noEnd", TagType_Compound, b, TagType_End, 0, m) :
        b \in {<<>>, <<1, 0, 1, 97, 5>>,
               <<1, 0, 1, 97, 5, 3, 0, 1, 98, 0, 0, 0, 7>>},
        m \in EngineMaxMiB}

\* A negative length or count field.
NegativeInputs ==
    {DecodeInput("negative", x[1], BytesBE(x[2], 4) \o Zeros(x[3]), x[1], x[2],
                 LargestEngineMiB) :
        x \in {TagType_ByteArray, TagType_IntArray, TagType_LongArray}
              \X {-1, -5} \X Remains}

\* Compounds whose bytes repeat the name "a": Byte 1, Byte 2; Byte 1, Int 7;
\* Byte 1, b: Byte 3, Byte 2; Byte 1, Byte 2, Byte 3. id and asked are the
\* type and the value of the last child named "a".
RepeatInputs ==
    {DecodeInput("repeatName", TagType_Compound, x[1], x[2], x[3],
                 LargestEngineMiB) :
        x \in {<<<<1, 0, 1, 97, 1,  1, 0, 1, 97, 2,  0>>, TagType_Byte, 2>>,
               <<<<1, 0, 1, 97, 1,  3, 0, 1, 97, 0, 0, 0, 7,  0>>, TagType_Int, 7>>,
               <<<<1, 0, 1, 97, 1,  1, 0, 1, 98, 3,  1, 0, 1, 97, 2,  0>>,
                 TagType_Byte, 2>>,
               <<<<1, 0, 1, 97, 1,  1, 0, 1, 97, 2,  1, 0, 1, 97, 3,  0>>,
                 TagType_Byte, 3>>}}

DecodeInputs ==
    UnknownChildInputs \cup UnknownListInputs \cup TruncatedInputs
        \cup NoEndInputs \cup NegativeInputs \cup RepeatInputs

\* The buffers of the readers, and the lengths asked of readBytes.
ReaderBuffers == <<<<>>, <<1, 2, 3>>, <<255, 255, 255, 251, 0, 0, 0, 0, 9>>>>
ReaderOps == {"readByte", "readUByte", "readShort", "readUShort", "readInt",
              "readLong", "readFloat", "readDouble", "readBytes"}
ReadLengths == {-5, -1, 0, 1, 2, 10}

\* The bytes an operation asks for.
Width(name, length) ==
    CASE name \in {"readByte", "readUByte"} -> 1
      [] name \in {"readShort", "readUShort"} -> 2
      [] name \in {"readInt", "readFloat"} -> 4
      [] name \in {"readLong", "readDouble"} -> 8
      [] OTHER -> length

\* The operation of the name on the reader.
ReadOp(s, name, length) ==
    CASE name = "readByte" -> readByte(s)
      [] name = "readUByte" -> readUByte(s)
      [] name = "readShort" -> readShort(s)
      [] name = "readUShort" -> readUShort(s)
      [] name = "readInt" -> readInt(s)
      [] name = "readLong" -> readLong(s)
      [] name = "readFloat" -> readFloat(s)
      [] name = "readDouble" -> readDouble(s)
      [] OTHER -> readBytes(s, length)

\* The keys and the tags given to TagCompound.set.
SetKeys == <<<<>>, Str_a, Str_s>>
SetTags == <<NewTagInt(1), NewTagInt(2), NewTagString(Str_a)>>

\* ------------------------------------------------------------ decoder operations
InitDecode ==
    /\ uint8 = EmptyContainer
    /\ start = uint8
    /\ pending = <<>>
    /\ written = EmptyTable
    /\ last = NoCall
    /\ calls = 0
    /\ \/ /\ phase = "input"
          /\ cin \in DecodeInputs
          /\ cout = NoCodec
       \/ /\ phase = "reader"
          /\ \E i \in 1..Len(ReaderBuffers) :
                cin = [op |-> "reader", s |-> NewByteReader(ReaderBuffers[i]),
                       reads |-> 0]
          /\ cout = NoCodec
       \/ /\ phase = "compound"
          /\ cin = [op |-> "compound", entries |-> <<>>, sets |-> 0]
          /\ cout = [op |-> "sets", history |-> <<>>]

\* readPayload of the tag Tag.create made for the type, on the bytes.
DecodeTag ==
    /\ cin.op = "decode"
    /\ Output([op |-> "decode",
               read |-> ReadPayload(cin.type,
                                    InEngine(NewByteReader(cin.bytes), cin.maxMiB))])

\* One read operation of a ByteReader; a reader that threw is read again.
ReaderRead ==
    /\ phase = "reader"
    /\ cin.reads < MaxReads
    /\ \E name \in ReaderOps, length \in ReadLengths :
       \E r \in {ReadOp(cin.s, name, length)} :
          /\ cin' = [cin EXCEPT !.s = r.s, !.reads = @ + 1]
          /\ cout' = [op |-> "read", name |-> name,
                      asked |-> Width(name, length),
                      ok |-> r.ok, err |-> r.err,
                      before |-> cin.s, after |-> r.s]
    /\ UNCHANGED <<regionVars, phase>>

\* TagCompound.set(key, tag); the calls made are kept in cout.history.
SetCall ==
    /\ phase = "compound"
    /\ cin.sets < MaxSets
    /\ \E k \in 1..Len(SetKeys), t \in 1..Len(SetTags) :
          /\ cin' = [cin EXCEPT
                        !.entries = CompoundSet(@, SetKeys[k], SetTags[t]),
                        !.sets = @ + 1]
          /\ cout' = [cout EXCEPT
                         !.history = Append(@, [key |-> SetKeys[k],
                                                tag |-> SetTags[t]])]
    /\ UNCHANGED <<regionVars, phase>>

NextDecode ==
    \/ DecodeTag
    \/ ReaderRead
    \/ SetCall

SpecDecode == InitDecode /\ [][NextDecode]_vars

\* ------------------------------------------------------------ editing inputs
\* The operations made on one list, and on the tags and compounds of a tree.
MaxEdits == 4
MaxTreeOps == 3

\* The tags added to a list, and the headers a list is decoded from: a type id
\* and a count, followed by zero bytes.
ListTags == <<NewTagInt(7), NewTagString(Str_a)>>
ListHeaders == {TagType_End, TagType_Int, TagType_String} \X {-1, 0, 1}
ListPayload(elemType, count) == <<elemType>> \o BytesBE(count, 4) \o Zeros(4)

\* The tag objects handed to set are 1 and 2, both TagInt; the compounds are
\* 1 and 2, and the child a decode of compound c creates is object 2 + c.
TreeTags == {1, 2}
TreeCompounds == {1, 2}
TreeKeys == <<Str_a, Str_s>>
TreeValue(ref) == NewTagInt(ref)

\* Map.set(key, ref) on the entries of a Map of references.
MapSet(entries, key, ref) ==
    IF \E i \in 1..Len(entries) : entries[i].key = key
    THEN [i \in 1..Len(entries) |->
             IF entries[i].key = key THEN [key |-> key, ref |-> ref]
             ELSE entries[i]]
    ELSE Append(entries, [key |-> key, ref |-> ref])

\* The entries of a compound with each reference replaced by the tag object
\* it refers to, which holds the name last assigned to it.
Resolve(names, entries) ==
    [i \in 1..Len(entries) |->
        [key |-> entries[i].key,
         tag |-> [TreeValue(entries[i].ref) EXCEPT !.name = names[entries[i].ref]]]]

\* The payload of a compound that holds each child under its key.
UnderKeys(entries) ==
    toUint8Array(WritePayload(
        NewTagCompound([i \in 1..Len(entries) |->
            [key |-> entries[i].key,
             tag |-> [TreeValue(entries[i].ref) EXCEPT !.name = entries[i].key]]]),
        NewByteWriter(DefaultCapacity)).s)

\* ------------------------------------------------------------ editing operations
InitEdit ==
    /\ uint8 = EmptyContainer
    /\ start = uint8
    /\ pending = <<>>
    /\ written = EmptyTable
    /\ last = NoCall
    /\ calls = 0
    /\ cout = NoCodec
    /\ \/ /\ phase = "list"
          /\ cin = [op |-> "list", list |-> NewTagList(TagType_End, <<>>),
                    edits |-> 0]
       \/ /\ phase = "tree"
          /\ cin = [op |-> "tree", names |-> [r \in 1..4 |-> NULL],
                    maps |-> <<<<>>, <<>>>>, ops |-> 0]

\* TagList.add(tag).
ListAdd(t) ==
    /\ phase = "list"
    /\ cin.edits < MaxEdits
    /\ cin' = [cin EXCEPT !.list.value.tags = Append(@, ListTags[t]),
                          !.edits = @ + 1]
    /\ UNCHANGED <<regionVars, cout, phase>>

\* The delete handler of the editor on a list: tags.splice(k, 1).
ListDelete(k) ==
    /\ phase = "list"
    /\ cin.edits < MaxEdits
    /\ k \in 1..Len(cin.list.value.tags)
    /\ cin' = [cin EXCEPT !.list.value.tags = RemoveAt(@, k), !.edits = @ + 1]
    /\ UNCHANGED <<regionVars, cout, phase>>

\* TagList.readPayload of a header on the list.
ListDecode(elemType, count) ==
    /\ phase = "list"
    /\ cin.edits < MaxEdits
    /\ \E r \in {ReadPayload(TagType_List,
                              NewByteReader(ListPayload(elemType, count)))} :
          /\ r.ok
          /\ cin' = [cin EXCEPT !.list.value = r.v, !.edits = @ + 1]
    /\ UNCHANGED <<regionVars, cout, phase>>

\* TagList.writePayload of the list; cout holds the bytes written and the
\* number of elements the list had.
ListEncode ==
    /\ phase = "list"
    /\ cin.edits < MaxEdits
    /\ \E w \in {WritePayload(cin.list, NewByteWriter(DefaultCapacity))} :
          /\ cin' = [cin EXCEPT !.list = w.t, !.edits = @ + 1]
          /\ cout' = [op |-> "list", ok |-> w.ok, bytes |-> toUint8Array(w.s),
                      count |-> Len(cin.list.value.tags)]
    /\ UNCHANGED <<regionVars, phase>>

\* compound c .set(key, tag object ref): the object takes the name, and the
\* Map of c holds the reference under the key.
TreeSet(c, k, ref) ==
    /\ phase = "tree"
    /\ cin.ops < MaxTreeOps
    /\ cin' = [cin EXCEPT !.names[ref] = TreeKeys[k],
                          !.maps[c] = MapSet(@, TreeKeys[k], ref),
                          !.ops = @ + 1]
    /\ UNCHANGED <<regionVars, cout, phase>>

\* compound c .readPayload of the one child named by the key: the Map is
\* cleared and holds a new tag object under the name decoded.
TreeDecode(c, k) ==
    /\ phase = "tree"
    /\ cin.ops < MaxTreeOps
    /\ cin' = [cin EXCEPT !.names[2 + c] = TreeKeys[k],
                          !.maps[c] = <<[key |-> TreeKeys[k], ref |-> 2 + c]>>,
                          !.ops = @ + 1]
    /\ UNCHANGED <<regionVars, cout, phase>>

\* compound c .writePayload; cout holds the bytes written and the entries the
\* Map had.
TreeEncode(c) ==
    /\ phase = "tree"
    /\ cin.ops < MaxTreeOps
    /\ \E w \in {WritePayload(NewTagCompound(Resolve(cin.names, cin.maps[c])),
                               NewByteWriter(DefaultCapacity))} :
          /\ cin' = [cin EXCEPT !.ops = @ + 1]
          /\ cout' = [op |-> "tree", ok |-> w.ok, bytes |-> toUint8Array(w.s),
                      entries |-> cin.maps[c]]
    /\ UNCHANGED <<regionVars, phase>>

NextEdit ==
    \/ \E t \in 1..Len(ListTags) : ListAdd(t)
    \/ \E k \in 1..MaxEdits : ListDelete(k)
    \/ \E h \in ListHeaders : ListDecode(h[1], h[2])
    \/ ListEncode
    \/ \E c \in TreeCompounds, k \in 1..Len(TreeKeys), ref \in TreeTags :
          TreeSet(c, k, ref)
    \/ \E c \in TreeCompounds, k \in 1..Len(TreeKeys) : TreeDecode(c, k)
    \/ \E c \in TreeCompounds : TreeEncode(c)

SpecEdit == InitEdit /\ [][NextEdit]_vars

\* ------------------------------------------------------------ writer buffer
\* The ByteWriter with its buffer: [buffer, offset], buffer of buffer.length
\* bytes, those from offset on not yet written.
NewBuffer(size) == [i \in 1..size |-> 0]
BufferOf(initialCapacity) == [buffer |-> NewBuffer(initialCapacity), offset |-> 0]

\* TypedArray.set(data, at) and the DataView setters: the bytes of data from
\* index at on.
BufferSet(buffer, data, at) ==
    [i \in 1..Len(buffer) |->
        IF i > at /\ i <= at + Len(data) THEN data[i - at] ELSE buffer[i]]

\* ensureCapacity without newBuffer.set(this.buffer).
BufferEnsure_NoCopy(w, add) ==
    IF w.offset + add > Len(w.buffer)
    THEN [w EXCEPT !.buffer = NewBuffer(Max(Len(w.buffer) * 2, w.offset + add))]
    ELSE w

\* ensureCapacity(add) on the buffer.
BufferEnsure(w, add) ==
    IF w.offset + add > Len(w.buffer)
    THEN [w EXCEPT !.buffer =
             BufferSet(NewBuffer(Max(Len(w.buffer) * 2, w.offset + add)),
                       w.buffer, 0)]
    ELSE w

\* A write operation of the bytes: ensureCapacity, the setter at offset, and
\* the offset moved.
BufferWrite(w, bytes) ==
    With(BufferEnsure(w, Len(bytes)), LAMBDA w1 :
        [buffer |-> BufferSet(w1.buffer, bytes, w1.offset),
         offset |-> w1.offset + Len(bytes)])

\* toUint8Array(): buffer.subarray(0, offset).
BufferToUint8Array(w) == Subarray(w.buffer, 0, w.offset)

\* ------------------------------------------------------------ writer inputs
\* The write operations made on one writer, and the bytes a VarInt or VarLong
\* write is followed for.
MaxWrites == 3
MaxVarBytes == 12

WriterCapacities == {0, 1, 2, 5, 16}
WriterOps == {"writeByte", "writeUByte", "writeShort", "writeUShort", "writeInt",
              "writeLong", "writeFloat", "writeDouble", "writeBytes"}
WriterInts == {0, 1, -1, 258}
WriterLongs == {<<0, 1>>, <<-1, -2>>}
WriterData == {<<>>, <<9>>, <<1, 2, 3>>, <<4, 5, 6, 7, 8, 9, 10, 11, 12>>}

\* The values given to an operation, and its width.
WriterValues(name) ==
    CASE name \in {"writeLong", "writeDouble"} -> WriterLongs
      [] name = "writeBytes" -> WriterData
      [] OTHER -> WriterInts
WriteWidth(name, val) ==
    CASE name \in {"writeByte", "writeUByte"} -> 1
      [] name \in {"writeShort", "writeUShort"} -> 2
      [] name \in {"writeInt", "writeFloat"} -> 4
      [] name \in {"writeLong", "writeDouble"} -> 8
      [] OTHER -> Len(val)

\* The bytes the setter of the operation stores: the low bits of the value,
\* big-endian.
WriteImage(name, val) ==
    CASE name \in {"writeLong", "writeDouble"} ->
            BytesBE(val[1], 4) \o BytesBE(val[2], 4)
      [] name = "writeBytes" -> val
      [] OTHER -> BytesBE(val, WriteWidth(name, val))

\* The operation of the name on the writer [bytes, capacity].
WriteOp(w, name, val) ==
    CASE name = "writeByte" -> writeByte(w, val)
      [] name = "writeUByte" -> writeUByte(w, val)
      [] name = "writeShort" -> writeShort(w, val)
      [] name = "writeUShort" -> writeUShort(w, val)
      [] name = "writeInt" -> writeInt(w, val)
      [] name = "writeLong" -> writeLong(w, val)
      [] name = "writeFloat" -> writeFloat(w, val)
      [] name = "writeDouble" -> writeDouble(w, val)
      [] OTHER -> writeBytes(w, val)

\* A 64-bit integer is <<a, b, c>>, the value a * 2^42 + b * 2^21 + c with b
\* and c of 0 .. 2^21 - 1 and a of -2^21 .. 2^21 - 1.
Limb == 128 * 128 * 128
LimbShift == 128 * 128
Long64(a, b, c) == <<a, b, c>>

\* v >> 7 of a BigInt and v >>> 7 of an unsigned 32-bit number: the floor of
\* v / 128.
ShiftRight7(v) ==
    <<v[1] \div 128,
      (v[2] \div 128) + (v[1] % 128) * LimbShift,
      (v[3] \div 128) + (v[2] % 128) * LimbShift>>

\* (v & ~0x7F) === 0: no bit above the low seven is set.
FitsSegment(v) == v[1] = 0 /\ v[2] = 0 /\ v[3] < 128

\* v & 0x7F
SegmentOf(v) == v[3] % 128

\* The values written as VarLong: 0, 1, 127, 128, 300, 2^63 - 1, -1, -128 and
\* -2^63.
VarLongs ==
    {Long64(0, 0, 0), Long64(0, 0, 1), Long64(0, 0, 127), Long64(0, 0, 128),
     Long64(0, 0, 300), Long64(Limb - 1, Limb - 1, Limb - 1),
     Long64(-1, Limb - 1, Limb - 1), Long64(-1, Limb - 1, Limb - 128),
     Long64(-Limb, 0, 0)}

\* The values written as VarInt after value >>> 0: 0, 1, 127, 128, 300,
\* 2^31 - 1, 2^31 (of -2^31) and 2^32 - 1 (of -1).
VarInts ==
    {Long64(0, 0, 0), Long64(0, 0, 1), Long64(0, 0, 127), Long64(0, 0, 128),
     Long64(0, 0, 300), Long64(0, 1023, Limb - 1), Long64(0, 1024, 0),
     Long64(0, 2047, Limb - 1)}

\* ------------------------------------------------------------ writer operations
InitWriter ==
    /\ uint8 = EmptyContainer
    /\ start = uint8
    /\ pending = <<>>
    /\ written = EmptyTable
    /\ last = NoCall
    /\ calls = 0
    /\ cout = NoCodec
    /\ \/ /\ phase = "writer"
          /\ \E capacity \in WriterCapacities :
                cin = [op |-> "writer", w |-> BufferOf(capacity),
                       stream |-> NewByteWriter(capacity),
                       log |-> <<>>, widths |-> 0, writes |-> 0]
       \/ /\ phase = "var"
          /\ \/ \E v \in VarLongs :
                   cin = [op |-> "VarLong", value |-> v, v |-> v,
                          stream |-> NewByteWriter(DefaultCapacity),
                          returned |-> FALSE]
             \/ \E v \in VarInts :
                   cin = [op |-> "VarInt", value |-> v, v |-> v,
                          stream |-> NewByteWriter(DefaultCapacity),
                          returned |-> FALSE]

\* One write operation of a ByteWriter, on the buffer and on the writer
\* [bytes, capacity]; log and widths keep what was asked.
WriterWrite ==
    /\ phase = "writer"
    /\ cin.writes < MaxWrites
    /\ \E name \in WriterOps :
       \E val \in WriterValues(name) :
          /\ cin' = [cin EXCEPT
                        !.w = BufferWrite(@, WriteImage(name, val)),
                        !.stream = WriteOp(@, name, val),
                        !.log = @ \o [i \in 1..Len(WriteImage(name, val)) |->
                                         WriteImage(name, val)[i] % 256],
                        !.widths = @ + WriteWidth(name, val),
                        !.writes = @ + 1]
          /\ cout' = [op |-> "write", name |-> name,
                      add |-> WriteWidth(name, val), before |-> cin.w]
    /\ UNCHANGED <<regionVars, phase>>

\* One turn of the loop of TVarInt.write and TVarLong.write: the last byte is
\* written and the call returns, or a byte with the continue bit is written
\* and v is shifted.
VarWriteStep ==
    /\ phase = "var"
    /\ ~cin.returned
    /\ Len(toUint8Array(cin.stream)) < MaxVarBytes
    /\ cin' = IF FitsSegment(cin.v)
              THEN [cin EXCEPT !.stream = writeUByte(@, cin.v[3]),
                               !.returned = TRUE]
              ELSE [cin EXCEPT !.stream = writeUByte(@, SegmentOf(cin.v) + 128),
                               !.v = ShiftRight7(@)]
    /\ UNCHANGED <<regionVars, cout, phase>>

NextWriter ==
    \/ WriterWrite
    \/ VarWriteStep

SpecWriter == InitWriter /\ [][NextWriter]_vars

\* ------------------------------------------------------------ rewriting inputs
\* The largest value of the 2-byte length prefix.
MaxUShort == 65535

\* The bytes of a text: empty, "a", U+FEFF "a", U+FEFF U+FEFF "a", a byte
\* that is no UTF-8, an encoded surrogate, an overlong NUL, a cut euro sign,
\* and U+1F600.
TextBytes ==
    {<<>>, <<97>>, <<239, 187, 191, 97>>, <<239, 187, 191, 239, 187, 191, 97>>,
     <<255>>, <<237, 160, 128>>, <<192, 128>>, <<226, 130>>,
     <<240, 159, 152, 128>>}

\* Documents with the text as the root name, as the name of a Byte child, as
\* the value of the String "s", and as the second child name after "a".
RootNameDoc(b) == <<TagType_Compound>> \o BytesBE(Len(b), 2) \o b \o <<TagType_End>>
ChildNameDoc(b) ==
    <<TagType_Compound, 0, 0, TagType_Byte>> \o BytesBE(Len(b), 2) \o b
        \o <<5, TagType_End>>
StringDoc(b) ==
    <<TagType_Compound, 0, 0, TagType_String, 0, 1, 115>> \o BytesBE(Len(b), 2)
        \o b \o <<TagType_End>>
TwoNamesDoc(b) ==
    <<TagType_Compound, 0, 0, TagType_Byte, 0, 1, 97, 1, TagType_Byte>>
        \o BytesBE(Len(b), 2) \o b \o <<2, TagType_End>>

\* The byte sequences given to TagIO.read and written again.
RewriteInputs ==
    {ListDocBytes(e, count) : e \in ElemTypes, count \in (-1)..MaxCount}
        \cup {RootNameDoc(b) : b \in TextBytes}
        \cup {ChildNameDoc(b) : b \in TextBytes}
        \cup {StringDoc(b) : b \in TextBytes}
        \cup {TwoNamesDoc(b) : b \in TextBytes}
        \cup {<<b>> \o Rests[r] : b \in {0, 9, 10, 11}, r \in 1..Len(Rests)}

\* The texts written: "a" repeated, up to and beyond the largest prefix.
TextLengths == {0, 1, MaxUShort, MaxUShort + 1}
TextPlaces == {"root", "name", "string"}
TextOf(n) == [i \in 1..n |-> 97]

\* The document that holds the text at the place.
TextDoc(place, text) ==
    CASE place = "root" -> Named(NewTagCompound(<<>>), text)
      [] place = "name" ->
            Named(NewTagCompound(CompoundSet(<<>>, text, NewTagInt(7))), <<>>)
      [] OTHER ->
            Named(NewTagCompound(CompoundSet(<<>>, Str_s, NewTagString(text))), <<>>)

\* ------------------------------------------------------------ rewriting operations
InitRewrite ==
    /\ uint8 = EmptyContainer
    /\ start = uint8
    /\ pending = <<>>
    /\ written = EmptyTable
    /\ last = NoCall
    /\ calls = 0
    /\ cout = NoCodec
    /\ phase = "input"
    /\ \/ \E b \in RewriteInputs, network \in BOOLEAN :
             cin = [op |-> "rewrite", bytes |-> b, network |-> network]
       \/ \E place \in TextPlaces, n \in TextLengths :
             cin = [op |-> "text", place |-> place, n |-> n]

\* TagIO.read(b), and for a tree read TagIO.write of it and TagIO.read of the
\* bytes written.
Rewrite ==
    /\ cin.op = "rewrite"
    /\ \E first \in {TagIORead(cin.bytes, cin.network)} :
          IF ~first.ok
          THEN Output([op |-> "rewrite", accepted |-> FALSE])
          ELSE \E w \in {TagIOWrite(first.v, cin.network)} :
                  Output([op |-> "rewrite", accepted |-> TRUE, first |-> first.v,
                          wrote |-> w.ok, err |-> w.err,
                          second |-> IF w.ok
                                     THEN TagIORead(toUint8Array(w.s), cin.network)
                                     ELSE Fail(w.err, NewByteReader(<<>>))])

\* TagIO.write of the document that holds the text.
WriteText ==
    /\ cin.op = "text"
    /\ \E w \in {TagIOWrite(TextDoc(cin.place, TextOf(cin.n)), FALSE)} :
          Output([op |-> "text", ok |-> w.ok, err |-> w.err,
                  bytes |-> toUint8Array(w.s)])

NextRewrite ==
    \/ Rewrite
    \/ WriteText

SpecRewrite == InitRewrite /\ [][NextRewrite]_vars

\* ------------------------------------------------------------ editor state
\* The handler calls of a behaviour of the editor.
MaxHandlers == 6

\* The refs of the App component are the fields of cin; null is the string
\* "null", and <<>> for the chunk coordinates. A file is its name; a reader
\* and a tag are named after the file they were made from.
AppNull == "null"
NoCoord == <<>>

\* The files given: a region file, a region file shorter than its header, a
\* document named level.dat, and a file that is no document.
AppFiles == {"r.mca", "short.mca", "level.dat", "bad.nbt"}
IsRegionName(file) == file \in {"r.mca", "short.mca"}
ReaderOf(file) == [reader |-> file]
NoReader == [reader |-> AppNull]
TagOf(file, coord) == [tag |-> file, coord |-> coord]
NoTag == [tag |-> AppNull, coord |-> NoCoord]

\* The chunks of r.mca: (0,0) holds a document, the record of (7,3) is corrupt.
AppChunks == <<<<0, 0>>, <<7, 3>>>>

AppState ==
    [op |-> "app", currentFile |-> AppNull, isLoading |-> FALSE,
     errorMsg |-> AppNull, rootTag |-> NoTag, isRegion |-> FALSE,
     regionReader |-> NoReader, presentChunks |-> <<>>,
     currentChunkCoord |-> NoCoord]

\* resetState()
resetState(app) ==
    [app EXCEPT !.currentFile = AppNull, !.rootTag = NoTag,
                !.regionReader = NoReader, !.presentChunks = <<>>,
                !.currentChunkCoord = NoCoord, !.errorMsg = AppNull,
                !.isRegion = FALSE]

\* The template: which of the three views of the main area is shown.
UploaderShown(app) == app.currentFile = AppNull /\ ~app.isLoading
GridShown(app) ==
    ~UploaderShown(app) /\ app.isRegion /\ app.rootTag = NoTag /\ ~app.isLoading
EditorShown(app) ==
    ~UploaderShown(app) /\ ~GridShown(app) /\ app.rootTag # NoTag /\ ~app.isLoading

InitApp ==
    /\ uint8 = EmptyContainer
    /\ start = uint8
    /\ pending = <<>>
    /\ written = EmptyTable
    /\ last = NoCall
    /\ calls = 0
    /\ cin = AppState
    /\ cout = NoCodec
    /\ phase = "app"

\* A handler is called: one more call, and the task it leaves suspended.
Called(handler, app, tasks) ==
    /\ calls < MaxHandlers
    /\ calls' = calls + 1
    /\ last' = [NoCall EXCEPT !.op = handler]
    /\ cin' = app
    /\ pending' = pending \o tasks
    /\ UNCHANGED <<uint8, written, start, cout, phase>>

\* The task i resumes: the refs it assigns, and the task it is suspended as
\* again, if any.
Resumed(i, app, tasks) ==
    /\ cin' = app
    /\ pending' = RemoveAt(pending, i) \o tasks
    /\ UNCHANGED <<uint8, written, last, start, calls, cout, phase>>

\* onFileLoaded(file) up to await file.arrayBuffer().
OnFileLoaded(file) ==
    /\ phase = "app"
    /\ UploaderShown(cin)
    /\ Called("onFileLoaded", [resetState(cin) EXCEPT !.currentFile = file, !.isLoading = TRUE],
              <<[handler |-> "onFileLoaded", at |-> "arrayBuffer", file |-> file,
                 coord |-> NoCoord]>>)

\* onFileLoaded after file.arrayBuffer(): the reader of a region file is
\* installed and its chunks listed, getPresentChunks throwing on a buffer
\* shorter than the location table; any other file is given to
\* TagIO.readAsync.
OnFileLoadedBuffer(i) ==
    /\ phase = "app"
    /\ i \in 1..Len(pending)
    /\ pending[i].handler = "onFileLoaded"
    /\ pending[i].at = "arrayBuffer"
    /\ \E file \in {pending[i].file} :
          IF IsRegionName(file)
          THEN Resumed(i,
                  [cin EXCEPT !.isRegion = TRUE,
                              !.regionReader = ReaderOf(file),
                              !.presentChunks =
                                  IF file = "short.mca" THEN @ ELSE AppChunks,
                              !.errorMsg =
                                  IF file = "short.mca" THEN "Failed to parse file"
                                  ELSE @,
                              !.isLoading = FALSE],
                  <<>>)
          ELSE Resumed(i, [cin EXCEPT !.isRegion = FALSE],
                       <<[pending[i] EXCEPT !.at = "readAsync"]>>)

\* onFileLoaded after TagIO.readAsync: the tag is installed, or the error
\* shown.
OnFileLoadedTag(i) ==
    /\ phase = "app"
    /\ i \in 1..Len(pending)
    /\ pending[i].handler = "onFileLoaded"
    /\ pending[i].at = "readAsync"
    /\ Resumed(i,
               IF pending[i].file = "bad.nbt"
               THEN [cin EXCEPT !.errorMsg = "Failed to parse file",
                                !.isLoading = FALSE]
               ELSE [cin EXCEPT !.rootTag = TagOf(pending[i].file, NoCoord),
                                !.isLoading = FALSE],
               <<>>)

\* removeFile() with the confirmation given; the button is shown while
\* currentFile is set.
RemoveFile ==
    /\ phase = "app"
    /\ cin.currentFile # AppNull
    /\ Called("removeFile", resetState(cin), <<>>)

\* The Reset button of the error message.
ResetClicked ==
    /\ phase = "app"
    /\ cin.errorMsg # AppNull
    /\ ~cin.isLoading
    /\ Called("resetState", resetState(cin), <<>>)

\* loadChunk(x, z) up to await readChunk.
LoadChunk(coord) ==
    /\ phase = "app"
    /\ GridShown(cin)
    /\ \E k \in 1..Len(cin.presentChunks) : cin.presentChunks[k] = coord
    /\ IF cin.regionReader = NoReader THEN Called("loadChunk", cin, <<>>)
       ELSE Called("loadChunk", [cin EXCEPT !.isLoading = TRUE],
                   <<[handler |-> "loadChunk", at |-> "readChunk",
                      file |-> cin.regionReader.reader, coord |-> coord]>>)

\* loadChunk after readChunk: the chunk is installed, or the message shown.
LoadChunkRead(i) ==
    /\ phase = "app"
    /\ i \in 1..Len(pending)
    /\ pending[i].handler = "loadChunk"
    /\ Resumed(i,
               IF pending[i].coord = <<0, 0>>
               THEN [cin EXCEPT !.rootTag = TagOf(pending[i].file, pending[i].coord),
                                !.currentChunkCoord = pending[i].coord,
                                !.isLoading = FALSE]
               ELSE [cin EXCEPT !.errorMsg = "corrupt or empty",
                                !.isLoading = FALSE],
               <<>>)

\* closeChunk()
CloseChunk ==
    /\ phase = "app"
    /\ EditorShown(cin)
    /\ cin.isRegion
    /\ Called("closeChunk", [cin EXCEPT !.rootTag = NoTag, !.currentChunkCoord = NoCoord], <<>>)

\* handleSave() up to its first await, or to its end when it has none.
HandleSave ==
    /\ phase = "app"
    /\ EditorShown(cin)
    /\ IF \/ cin.isRegion /\ cin.regionReader # NoReader
                /\ cin.currentChunkCoord # NoCoord
          \/ cin.currentFile = "level.dat"
       THEN Called("handleSave", [cin EXCEPT !.isLoading = TRUE],
                   <<[handler |-> "handleSave", at |-> "compress",
                      file |-> cin.currentFile, coord |-> cin.currentChunkCoord]>>)
       ELSE Called("handleSave", [cin EXCEPT !.isLoading = FALSE], <<>>)

\* handleSave after writeChunk or compress: the download, or the alert.
HandleSaveDone(i) ==
    /\ phase = "app"
    /\ i \in 1..Len(pending)
    /\ pending[i].handler = "handleSave"
    /\ Resumed(i, [cin EXCEPT !.isLoading = FALSE], <<>>)

NextApp ==
    \/ \E file \in AppFiles : OnFileLoaded(file)
    \/ \E i \in 1..MaxHandlers : OnFileLoadedBuffer(i)
    \/ \E i \in 1..MaxHandlers : OnFileLoadedTag(i)
    \/ RemoveFile
    \/ ResetClicked
    \/ \E k \in 1..Len(AppChunks) : LoadChunk(AppChunks[k])
    \/ \E i \in 1..MaxHandlers : LoadChunkRead(i)
    \/ CloseChunk
    \/ HandleSave
    \/ \E i \in 1..MaxHandlers : HandleSaveDone(i)

SpecApp == InitApp /\ [][NextApp]_vars

\* ------------------------------------------------------------ region claims
SlotX(j) == j % GridSize
SlotZ(j) == j \div GridSize
Slots(u) == DOMAIN u.loc

\* The sectors the location entry of slot j gives it.
Sectors(u, j) ==
    LET l == getLocation(u, SlotX(j), SlotZ(j))
    IN  l.sectorOffset .. (l.sectorOffset + l.sectorCount - 1)

\* The allocations of the present slots lie after the header and inside the
\* buffer, and no two share a sector.
WellAllocated(u) ==
    \A j \in Slots(u) :
        /\ \A k \in Sectors(u, j) :
              k >= HeaderSectors /\ (k + 1) * SectorSize <= byteLength(u)
        /\ \A k \in Slots(u) \ {j} : Sectors(u, j) \cap Sectors(u, k) = {}

\* The bytes of the sectors l in the buffer u.
RecordBytes(u, l) ==
    Slice(u.data, l.sectorOffset * SectorSize - HeaderSize, l.sectorCount * SectorSize)

\* Two tags of the same kind, name and payload; a null name counts as "".
RECURSIVE TagEquals(_, _)
TagEquals(a, b) ==
    /\ a.type = b.type
    /\ NameOrEmpty(a.name) = NameOrEmpty(b.name)
    /\ CASE a.type = TagType_List ->
               /\ a.value.listType = b.value.listType
               /\ Len(a.value.tags) = Len(b.value.tags)
               /\ \A i \in 1..Len(a.value.tags) :
                     TagEquals(a.value.tags[i], b.value.tags[i])
         [] a.type = TagType_Compound ->
               /\ Len(a.value) = Len(b.value)
               /\ \A i \in 1..Len(a.value) :
                     /\ a.value[i].key = b.value[i].key
                     /\ TagEquals(a.value[i].tag, b.value[i].tag)
         [] OTHER -> a.value = b.value

\* Two results of readChunk that are the same answer.
ReadEquals(a, b) ==
    /\ a.kind = b.kind
    /\ a.kind = "doc" => TagEquals(a.tag, b.tag)

\* Every slot but slot has in v the table entries, the record bytes and the
\* document it has in u.
OtherSlotsKept(u, v, slot) ==
    \A j \in (Slots(u) \cup Slots(v) \cup DOMAIN u.ts \cup DOMAIN v.ts) \ {slot} :
        /\ TableGet(v.loc, j) = TableGet(u.loc, j)
        /\ TableGet(v.ts, j) = TableGet(u.ts, j)
        /\ LET l == getLocation(u, SlotX(j), SlotZ(j))
           IN  RecordBytes(v, l) = RecordBytes(u, l)
        /\ ReadEquals(readChunk(v, SlotX(j), SlotZ(j)), readChunk(u, SlotX(j), SlotZ(j)))

Completed == last.op = "writeChunk" /\ last.outcome = "done"

\* C1: on a container whose allocations are in bounds and pairwise disjoint,
\* a writeChunk(x, z, doc) that completes, in place or appended, leaves every
\* slot other than (x mod 32, z mod 32) its location entry, its timestamp
\* entry, the bytes of its record and the document readChunk gives for it;
\* the container is again one of in-bounds, disjoint allocations, so this
\* holds along any sequence of such writes.
C1_OtherSlotsUnchanged ==
    [][(WellAllocated(uint8) /\ Completed')
          => /\ OtherSlotsKept(uint8, uint8', SlotIndex(last'.x, last'.z))
             /\ WellAllocated(uint8')]_vars

\* A write was appended to a file in which another slot holds a document.
C1_Witness ==
    /\ Completed
    /\ ~last.inPlace
    /\ WellAllocated(start)
    /\ \E j \in Slots(uint8) \ {SlotIndex(last.x, last.z)} :
          readChunk(uint8, SlotX(j), SlotZ(j)).kind = "doc"

\* C2: from an all-zero 8192-byte container, after any completed writes,
\* hasChunk is true exactly for the slots written, readChunk gives for each
\* a document equal to the one last written to it, and a RegionReader made
\* from getData() answers the same.
C2_ReadsBackLastWritten ==
    start = EmptyContainer =>
        \A j \in 0..(GridSize * GridSize - 1) :
            LET again == NewRegionReader(getData(uint8)) IN
            /\ hasChunk(uint8, SlotX(j), SlotZ(j)) <=> j \in DOMAIN written
            /\ hasChunk(again, SlotX(j), SlotZ(j)) <=> j \in DOMAIN written
            /\ j \in DOMAIN written =>
                  /\ ReadEquals(readChunk(uint8, SlotX(j), SlotZ(j)),
                                ReadDoc(written[j]))
                  /\ ReadEquals(readChunk(again, SlotX(j), SlotZ(j)),
                                ReadDoc(written[j]))

\* C3: on a buffer that holds the header, of any length, readChunk never
\* rejects for any (x, z): it gives a document or null.
C3_ReadChunkNeverRejects ==
    \A c \in ReadCoords : readChunk(uint8, c[1], c[2]).kind # "rejected"

Overflowed ==
    /\ last.op = "writeChunk"
    /\ last.outcome = "thrown"
    /\ last.err.kind \in {"FileTooLarge", "ChunkTooLarge"}

\* C4: a writeChunk that fails with the overflow error leaves the container
\* as it was before the call: the buffer getData() returns has the same
\* length, the same tables and the same sector data.
C4_OverflowLeavesContainer ==
    [][Overflowed' => (byteLength(getData(uint8')) = byteLength(getData(uint8))
                          /\ uint8' = uint8)]_vars

\* ------------------------------------------------------------ codec claims
Done(op) == phase = "output" /\ cout.op = op

\* C5: for a tag of any kind and value that is encoded, decoding the bytes
\* gives one tag of the same kind, name and payload, the order of list
\* elements and compound entries kept, and the decoder ends where the bytes
\* end.
C5_TagRoundTrip ==
    (Done("tag") /\ cout.ok) =>
        /\ cout.read.ok
        /\ Len(cout.read.v) = 1
        /\ TagEquals(cout.read.v[1].tag, cout.tag.value[1].tag)
        /\ cout.read.s.offset = Len(cout.returned)

\* Two compounds of the same entries, whatever their names.
SameEntries(a, b) == TagEquals(Named(a, <<>>), Named(b, <<>>))

\* C6: in both modes TagIO.read(TagIO.write(t, mode), mode) is a compound of
\* the entries of t; in standard mode its name is that of t, "" for a name of
\* no bytes; in network mode its name is "", and the bytes are the
\* standard-mode bytes without the name length and the name.
C6_DocRoundTrip ==
    (Done("doc") /\ cout.ok) =>
        /\ cout.stdRead.ok
        /\ cout.netRead.ok
        /\ SameEntries(cout.stdRead.v, cout.tag)
        /\ SameEntries(cout.netRead.v, cout.tag)
        /\ cout.stdRead.v.name = NameOrEmpty(cin.tag.name)
        /\ cout.netRead.v.name = <<>>
        /\ cout.netBytes =
              <<TagType_Compound>>
                  \o SubSeq(cout.stdBytes,
                            4 + Len(TextEncode(NameOrEmpty(cin.tag.name))),
                            Len(cout.stdBytes))

\* C7: TagIO.read of bytes whose first byte b is not 10 fails with the error
\* that the root must be a compound, and the error names b, for every b of
\* 0..255.
C7_RootErrorNamesByte ==
    (Done("bytes") /\ cin.bytes[1] # TagType_Compound) =>
        /\ ~cout.read.ok
        /\ cout.read.err.kind = "RootNotCompound"
        /\ cout.read.err.id = cin.bytes[1]

\* What the first two bytes are said to give.
DetectExpected(bytes) ==
    IF Len(bytes) < 2 THEN CompressionType_None
    ELSE IF bytes[1] = 31 /\ bytes[2] = 139 THEN CompressionType_GZip
    ELSE IF bytes[1] = 120 /\ bytes[2] = 156 THEN CompressionType_ZLib
    ELSE CompressionType_None

\* C8: detectCompression gives GZip for bytes that begin 1F 8B, ZLib for
\* bytes that begin 78 9C, and None for any other pair and for fewer than two
\* bytes, whatever follows the second byte.
C8_DetectByFirstTwoBytes ==
    Done("detect") => cout.type = DetectExpected(cin.bytes)

\* C9: decompress returns its input, no decompressor called, when detection
\* gives None; the bytes TagIO.write returns begin with 10 and are detected
\* as None, so TagIO.readAsync of them calls no decompressor and gives the
\* tree TagIO.read gives.
C9_ReadAsyncOfWritten ==
    /\ (Done("decompress") /\ cout.type = CompressionType_None) =>
          /\ ~cout.result.invoked
          /\ cout.result.data = cin.bytes
    /\ (Done("async") /\ cout.ok) =>
          /\ cout.bytes[1] = TagType_Compound
          /\ cout.type = CompressionType_None
          /\ ~cout.invoked
          /\ cout.async.ok
          /\ cout.sync.ok
          /\ TagEquals(cout.async.v, cout.sync.v)

\* A document with entries was written and read back by readAsync.
C9_Witness ==
    /\ Done("async")
    /\ cout.ok
    /\ cout.async.ok
    /\ Len(cout.async.v.value) > 0

RECURSIVE HasMixedList(_)
\* Some list of the tree has an element of another kind than its first.
HasMixedList(t) ==
    CASE t.type = TagType_List ->
             \E i \in 1..Len(t.value.tags) :
                 \/ t.value.tags[i].type # t.value.tags[1].type
                 \/ HasMixedList(t.value.tags[i])
      [] t.type = TagType_Compound ->
             \E i \in 1..Len(t.value) : HasMixedList(t.value[i].tag)
      [] OTHER -> FALSE

RECURSIVE Homogeneous(_)
\* Every list of the tree has only elements of its declared kind.
Homogeneous(t) ==
    CASE t.type = TagType_List ->
             \A i \in 1..Len(t.value.tags) :
                 /\ t.value.tags[i].type = t.value.listType
                 /\ Homogeneous(t.value.tags[i])
      [] t.type = TagType_Compound ->
             \A i \in 1..Len(t.value) : Homogeneous(t.value[i].tag)
      [] OTHER -> TRUE

\* C10: encoding a tree with a list of mixed kinds fails with the error of
\* the list and returns no bytes; every list of a decoded tree has only
\* elements of the kind it declares.
C10_ListsOfOneKind ==
    /\ (Done("tag") /\ HasMixedList(cin.tag)) =>
          /\ ~cout.ok
          /\ cout.err.kind = "MixedList"
          /\ cout.returned = NULL
    /\ (Done("doc") /\ HasMixedList(cin.tag)) =>
          /\ ~cout.ok
          /\ cout.err.kind = "MixedList"
          /\ cout.stdBytes = NULL
          /\ cout.netBytes = NULL
    /\ (Done("tag") /\ cout.read.ok) =>
          \A i \in 1..Len(cout.read.v) : Homogeneous(cout.read.v[i].tag)
    /\ (Done("doc") /\ cout.stdRead.ok) => Homogeneous(cout.stdRead.v)
    /\ (Done("bytes") /\ cout.read.ok) => Homogeneous(cout.read.v)

\* A list of an Int and a String, nested in a list, was given to the encoder.
C10_Witness ==
    /\ Done("tag")
    /\ cin.tag.type = TagType_List
    /\ HasMixedList(cin.tag)
    /\ ~cout.ok

\* ------------------------------------------------------------ decoder claims
\* C11: decoding bytes that name a type id outside 0..12, as the id of a
\* child of a compound or as the element id of a list of any count, fails
\* with the unknown-type error, the error names that id, and no tree is
\* returned.
C11_UnknownTypeIdFails ==
    (Done("decode") /\ cin.family \in {"unknownChild", "unknownList"}) =>
        /\ ~cout.read.ok
        /\ cout.read.err.kind = "UnknownTagType"
        /\ cout.read.err.id = cin.id

TruncatedFamilies ==
    {"string", "childName", "byteArray", "intArray", "longArray", "list", "noEnd"}

\* C12: decoding a String, a child name, a ByteArray, an IntArray, a
\* LongArray or a List whose length or count asks for more bytes than remain,
\* or a Compound that ends before its End marker, fails with EndOfStream and
\* returns no tag.
C12_TruncatedIsEndOfStream ==
    (Done("decode") /\ cin.family \in TruncatedFamilies) =>
        /\ ~cout.read.ok
        /\ cout.read.err.kind = "EndOfStream"

\* C13: a read of a ByteReader either throws EndOfStream and leaves the
\* cursor, or returns and moves the cursor by the bytes asked for; the buffer
\* is not touched; the cursor never decreases and never passes the end of the
\* buffer, for lengths read from the stream too, zero and negative ones
\* included.
C13_CursorAdvancesOrThrows ==
    /\ (phase = "reader" /\ cout.op = "read") =>
          /\ IF cout.ok
             THEN cout.after.offset = cout.before.offset + cout.asked
             ELSE /\ cout.err.kind = "EndOfStream"
                  /\ cout.after.offset = cout.before.offset
          /\ cout.after.uint8 = cout.before.uint8
          /\ cout.after.offset >= cout.before.offset
          /\ cout.after.offset <= Len(cout.after.uint8)
    /\ (Done("decode") /\ cin.family = "negative") =>
          /\ cout.read.s.offset >= 4
          /\ cout.read.s.offset <= Len(cin.bytes)

\* The entries of the key.
EntriesOf(entries, key) == {i \in 1..Len(entries) : entries[i].key = key}

\* Two tags of the same kind and payload, whatever their names.
SameTag(a, b) == TagEquals(Named(a, <<>>), Named(b, <<>>))

\* C16: after any calls of TagCompound.set the compound holds one entry for
\* each key that was set and none for another, and get(k) gives the tag of the
\* latest set(k, ...); decoding a compound whose bytes repeat a child name
\* keeps one child of that name, the last.
C16_OneEntryPerKey ==
    /\ phase = "compound" =>
          LET h == cout.history
              e == cin.entries
          IN  /\ \A k \in 1..Len(SetKeys) :
                    LET calls_k == {i \in 1..Len(h) : h[i].key = SetKeys[k]}
                    IN  IF calls_k = {}
                        THEN EntriesOf(e, SetKeys[k]) = {}
                        ELSE /\ Cardinality(EntriesOf(e, SetKeys[k])) = 1
                             /\ SameTag(CompoundGet(e, SetKeys[k]),
                                        h[CHOOSE i \in calls_k :
                                              \A j \in calls_k : j <= i].tag)
                             /\ CompoundGet(e, SetKeys[k]).name = SetKeys[k]
              /\ Len(e) = Cardinality({h[i].key : i \in 1..Len(h)})
    /\ (Done("decode") /\ cin.family = "repeatName") =>
          /\ cout.read.ok
          /\ Cardinality(EntriesOf(cout.read.v, Str_a)) = 1
          /\ CompoundGet(cout.read.v, Str_a).type = cin.id
          /\ CompoundGet(cout.read.v, Str_a).value = cin.asked
          /\ \A i \in 1..Len(cout.read.v) :
                Cardinality(EntriesOf(cout.read.v, cout.read.v[i].key)) = 1

\* A key was set, then another, then the first again with a tag of another
\* kind.
C16_Witness ==
    /\ phase = "compound"
    /\ Len(cout.history) = 3
    /\ cout.history[1].key = cout.history[3].key
    /\ cout.history[1].key # cout.history[2].key
    /\ cout.history[1].tag.type # cout.history[3].tag.type

\* ------------------------------------------------------------ table claims
\* Coordinates inside and outside 0..31, negative ones too.
ProbeCoords == {-33, -32, -1, 0, 5, 31, 32, 37, 1029}

\* The mathematical x mod 32, from the quotient rounded down.
Mod32(x) == x - 32 * (x \div 32)

CorruptDamages == {11, 12, 13, 14, 15}

\* C15: readChunk of a present slot whose record does not decompress or
\* decode gives its caller a result that says corrupt and that differs from
\* the result for an absent slot, and the caller shows the two differently.
C15_CorruptIsToldFromAbsent ==
    (/\ last.op = "readChunk"
     /\ last.outcome = "done"
     /\ SlotIndex(last.x, last.z) = SlotIndex(7, 3)
     /\ uint8 = start
     /\ \E k \in CorruptDamages : start = DamagedContainer(k)) =>
        /\ hasChunk(uint8, 7, 3)
        /\ ~hasChunk(uint8, 0, 0)
        /\ last.result.kind \notin {"doc", "rejected"}
        /\ ~ReadEquals(last.result, readChunk(uint8, 0, 0))
        /\ loadChunk(uint8, 7, 3).errorMsg # loadChunk(uint8, 0, 0).errorMsg

\* C17: after every writeChunk that completes, the buffer getData() returns
\* has a length that is a multiple of 4096, whatever the length of the buffer
\* the container was made from.
C17_LengthIsWholeSectors ==
    Completed => byteLength(getData(uint8)) % SectorSize = 0

\* C18: from a container of at least 8192 bytes whose present slots have
\* sector offsets >= 2 and sector ranges inside the buffer and pairwise
\* disjoint, after any completed writeChunk calls every present slot has a
\* sector offset >= 2, its range inside the buffer, and no two ranges overlap.
C18_AllocationsStayApart ==
    (phase = "region" /\ WellAllocated(start)) =>
        /\ byteLength(uint8) >= HeaderSize
        /\ WellAllocated(uint8)
        /\ \A j \in Slots(uint8) :
              getLocation(uint8, SlotX(j), SlotZ(j)).sectorOffset >= HeaderSectors

\* Two writes were appended to a file of three chunks, one after the other.
C18_Witness ==
    /\ Completed
    /\ ~last.inPlace
    /\ Cardinality(Slots(start)) = 3
    /\ byteLength(uint8) > byteLength(start) + 3 * SectorSize

\* ------------------------------------------------------------ placement claims
\* The bytes of the buffer u from byte from up to byte to.
BufferBytes(u, from, to) ==
    IF to > from THEN Slice(u.data, from - HeaderSize, to - from) ELSE <<>>

\* The length field of the record at the sectors l of u.
RecordLength(u, l) ==
    Int32BE(RunsToBytes(BufferBytes(u, l.sectorOffset * SectorSize,
                                    l.sectorOffset * SectorSize + 4)))

\* The sectors needed by the record the completed writeChunk(x, z) left in v.
SectorsNeeded(v, x, z) ==
    CeilDiv(4 + RecordLength(v, getLocation(v, x, z)), SectorSize)

\* The whole sectors of u after the header that no location entry holds.
Orphans(u) ==
    (HeaderSectors..((byteLength(u) \div SectorSize) - 1))
        \ UNION {Sectors(u, j) : j \in Slots(u)}

\* The bytes data with the sectors that the slots of u hold set to zero.
RECURSIVE MaskFrom(_, _, _)
MaskFrom(u, data, slots) ==
    IF slots = {} THEN data
    ELSE With(CHOOSE j \in slots : TRUE, LAMBDA j :
         With(getLocation(u, SlotX(j), SlotZ(j)), LAMBDA l :
             MaskFrom(u,
                      IF l.sectorCount = 0 THEN data
                      ELSE SetRuns(data, l.sectorOffset * SectorSize - HeaderSize,
                                   <<Fill(0, l.sectorCount * SectorSize)>>),
                      slots \ {j})))
Masked(u, data) == MaskFrom(u, data, Slots(u))

\* The step from u to v appended the record of slot (x, z): it is at sector
\* ceil(byteLength(u) / 4096), at or after the end of u, the location entry
\* holds that sector and the sectors needed, v is u followed by zero bytes
\* but for the record and the two table entries, and the sectors the slot
\* had are held by no slot. The length of v is that of u plus the sectors
\* needed if exact, and the end of the new sectors if not.
Appended(u, v, x, z, exact) ==
    LET old == getLocation(u, x, z)
        new == getLocation(v, x, z)
        dataLength == RecordLength(v, new)
        needed == SectorsNeeded(v, x, z)
        writeOffset == new.sectorOffset * SectorSize
    IN  /\ new.sectorOffset = CeilDiv(byteLength(u), SectorSize)
        /\ writeOffset >= byteLength(u)
        /\ new.sectorCount = needed
        /\ IF exact THEN byteLength(v) = byteLength(u) + needed * SectorSize
           ELSE byteLength(v) = writeOffset + needed * SectorSize
        /\ BufferBytes(v, HeaderSize, byteLength(u)) = u.data
        /\ writeOffset > byteLength(u) =>
              BufferBytes(v, byteLength(u), writeOffset)
                  = <<Fill(0, writeOffset - byteLength(u))>>
        /\ byteLength(v) > writeOffset + 4 + dataLength =>
              BufferBytes(v, writeOffset + 4 + dataLength, byteLength(v))
                  = <<Fill(0, byteLength(v) - writeOffset - 4 - dataLength)>>
        /\ RecordBytes(v, old) = RecordBytes(u, old)
        /\ \A k \in Sectors(u, SlotIndex(x, z)) : k \in Orphans(v)

\* A completed writeChunk(x, z) from u to v of a slot that was absent or held
\* fewer sectors than the record needs.
Outgrown(u, v, x, z) ==
    \/ ~hasChunk(u, x, z)
    \/ SectorsNeeded(v, x, z) > getLocation(u, x, z).sectorCount

\* The sectors no slot holds stay so, and the bytes outside the sectors the
\* slots hold are kept; the buffer is no shorter.
OrphansKept(u, v) ==
    /\ byteLength(v) >= byteLength(u)
    /\ Orphans(u) \subseteq Orphans(v)
    /\ v.data = u.data
          \/ Masked(u, BufferBytes(v, HeaderSize, byteLength(u))) = Masked(u, u.data)

SameOutside(u, v, l) ==
    /\ BufferBytes(v, HeaderSize, l.sectorOffset * SectorSize)
          = BufferBytes(u, HeaderSize, l.sectorOffset * SectorSize)
    /\ BufferBytes(v, (l.sectorOffset + l.sectorCount) * SectorSize, byteLength(v))
          = BufferBytes(u, (l.sectorOffset + l.sectorCount) * SectorSize, byteLength(u))

\* C20: a completed writeChunk of a slot whose sector offset is >= 2 and
\* whose sector count is at least ceil((5 + payloadLen) / 4096) writes the
\* record at the offset the slot has: the buffer length and the location
\* table are unchanged, the record lies at that offset, and only bytes of the
\* slot's own sectors and the slot's timestamp entry differ.
C20_OverwrittenInPlace ==
    [][(/\ Completed'
        /\ getLocation(uint8, last'.x, last'.z).sectorOffset >= 2
        /\ SectorsNeeded(uint8', last'.x, last'.z)
              <= getLocation(uint8, last'.x, last'.z).sectorCount) =>
          LET x == last'.x
              z == last'.z
              old == getLocation(uint8, x, z)
              dataLength == RecordLength(uint8', old)
              at == old.sectorOffset * SectorSize
          IN  /\ last'.inPlace
              /\ byteLength(uint8') = byteLength(uint8)
              /\ uint8'.loc = uint8.loc
              /\ BufferBytes(uint8', at + 4, at + 5) = <<Fill(2, 1)>>
              /\ BufferBytes(uint8', at + 5, at + 4 + dataLength)
                    = compress(NbtOf(written'[SlotIndex(x, z)]), "deflate",
                               dataLength - 1)
              /\ at + 4 + dataLength <= (old.sectorOffset + old.sectorCount) * SectorSize
              /\ SameOutside(uint8, uint8', old)
              /\ \A j \in (DOMAIN uint8.ts \cup DOMAIN uint8'.ts) \ {SlotIndex(x, z)} :
                    TableGet(uint8'.ts, j) = TableGet(uint8.ts, j)
              /\ TableGet(uint8'.ts, SlotIndex(x, z)) = NowTime]_vars

\* A record of two sectors was written over slot (0,0) of the file with tail
\* bytes, whose other slots keep the timestamp of the file.
C20_Witness ==
    /\ Completed
    /\ last.inPlace
    /\ start = Containers[3]
    /\ SlotIndex(last.x, last.z) = SlotIndex(0, 0)
    /\ SectorsNeeded(uint8, 0, 0) = 2
    /\ byteLength(uint8) = byteLength(start)
    /\ TableGet(uint8.ts, SlotIndex(5, 5)) = FileTime

\* ------------------------------------------------------------ record claims
\* C21: every writeChunk that completes, in place or appended, leaves at the
\* sector offset it chose the 4-byte big-endian length of the compressed
\* payload plus 1, the compression type 2 whatever the type of the record the
\* slot had, and the compressed payload of the document, and the timestamp
\* entry of the slot is the current time in seconds.
C21_RecordAndTimestampWritten ==
    [][Completed' =>
          LET x == last'.x
              z == last'.z
              l == getLocation(uint8', x, z)
              at == l.sectorOffset * SectorSize
              length == RecordLength(uint8', l)
          IN  /\ l.sectorOffset
                    = IF last'.inPlace THEN getLocation(uint8, x, z).sectorOffset
                      ELSE CeilDiv(byteLength(uint8), SectorSize)
              /\ length - 1 \in CompressedLens
              /\ BufferBytes(uint8', at + 4, at + 5) = <<Fill(2, 1)>>
              /\ BufferBytes(uint8', at + 5, at + 4 + length)
                    = <<Pay(Stream("deflate", NbtOf(written'[SlotIndex(x, z)]),
                                   length - 1), 0, length - 1)>>
              /\ TableGet(uint8'.ts, SlotIndex(x, z)) = NowTime]_vars

\* The gzip record of slot (5,5) of a file was overwritten in place, and the
\* record there is now of type 2.
C21_Witness ==
    /\ Completed
    /\ last.inPlace
    /\ SlotIndex(last.x, last.z) = SlotIndex(5, 5)
    /\ BufferBytes(start, 4 * SectorSize + 4, 4 * SectorSize + 5) = <<Fill(1, 1)>>
    /\ getLocation(uint8, 5, 5).sectorOffset = 4
    /\ BufferBytes(uint8, 4 * SectorSize + 4, 4 * SectorSize + 5) = <<Fill(2, 1)>>

\* C22: after any completed writeChunk calls, the sector count in the location
\* entry of every slot written is ceil((4 + L) / 4096) for the length field L
\* of the record at its offset, after an overwrite in place by a smaller
\* record too.
C22_CountIsSectorsOccupied ==
    \A j \in DOMAIN written :
        getLocation(uint8, SlotX(j), SlotZ(j)).sectorCount
            = SectorsNeeded(uint8, SlotX(j), SlotZ(j))

\* ------------------------------------------------------------ interleaving claims
\* The step resumes a writeChunk that was suspended together with the one
\* that completed last: both were started before either had finished.
ResumesSecondOfTwo ==
    /\ Completed
    /\ Len(pending) = 1
    /\ Completed'

\* C25: when two writeChunk calls are suspended in compress together, the
\* second to resume acts on the buffer the first left as a call made after
\* it would, in one step; the records of two slots share no sector and both
\* documents read back, and of two calls for one slot the document of the
\* second reads back.
C25_ResumesAreSequential ==
    [][ResumesSecondOfTwo =>
          LET a == SlotIndex(last.x, last.z)
              b == SlotIndex(last'.x, last'.z)
              n == RecordLength(uint8', getLocation(uint8', last'.x, last'.z)) - 1
          IN  /\ uint8' = writeChunkResume(uint8, last'.x, last'.z,
                                           compress(pending[1].nbtData, "deflate", n),
                                           NowTime).u
              /\ a # b =>
                    /\ Sectors(uint8', a) \cap Sectors(uint8', b) = {}
                    /\ ReadEquals(readChunk(uint8', SlotX(a), SlotZ(a)),
                                  ReadDoc(written[a]))
              /\ ReadEquals(readChunk(uint8', SlotX(b), SlotZ(b)),
                            ReadDoc(written'[b]))]_vars

\* ------------------------------------------------------------ editing claims
\* C23: whenever a TagList with no elements is encoded, the element type byte
\* written is End (0): for a new list, for a list decoded with another
\* declared type and a count of zero or less, and for a list that was encoded
\* with elements and emptied afterwards.
C23_EmptyListIsOfEnd ==
    (cout.op = "list" /\ cout.ok /\ cout.count = 0) => cout.bytes[1] = TagType_End

\* C26: after any calls of set and decodes, every entry of a compound is
\* stored under the name its child holds, and the encoding is that of each
\* child under its key, no name twice, also when one tag object was set under
\* two keys or into two compounds.
C26_KeysAreTheChildNames ==
    phase = "tree" =>
        /\ \A c \in TreeCompounds : \A i \in 1..Len(cin.maps[c]) :
              cin.names[cin.maps[c][i].ref] = cin.maps[c][i].key
        /\ cout.op = "tree" =>
              /\ cout.ok
              /\ cout.bytes = UnderKeys(cout.entries)

C29_VarWritesAreShort ==
    phase = "var" =>
        Len(toUint8Array(cin.stream)) <= (IF cin.op = "VarLong" THEN 10 ELSE 5)

\* ------------------------------------------------------------ rewriting claims
\* C27: for every byte sequence TagIO.read accepts, TagIO.write of the tree
\* read succeeds and TagIO.read of the bytes written gives a tree equal to it.
C27_RereadOfRewrittenIsEqual ==
    (cout.op = "rewrite" /\ cout.accepted) =>
        /\ cout.wrote
        /\ cout.second.ok
        /\ TagEquals(cout.first, cout.second.v)

\* Where the length prefix of the text lies in the bytes of TextDoc, and the
\* bytes of the document that are not of the text.
PrefixAt(place) ==
    CASE place = "root" -> 2 [] place = "name" -> 5 [] OTHER -> 8
Overhead(place) ==
    CASE place = "root" -> 4 [] place = "name" -> 11 [] OTHER -> 10

\* C28: for every String payload, tag name and root name written, the 2-byte
\* length prefix is the number of UTF-8 bytes written after it; a text of
\* more than 65535 bytes is never written with its length modulo 65536.
C28_PrefixIsTheTextLength ==
    (cout.op = "text" /\ cout.ok) =>
        UInt16BE(SubSeq(cout.bytes, PrefixAt(cin.place), PrefixAt(cin.place) + 1))
            = Len(cout.bytes) - Overhead(cin.place)

\* ------------------------------------------------------------ editor claims
\* C30: under every interleaving of onFileLoaded, loadChunk, closeChunk,
\* handleSave and removeFile / resetState, whenever rootTag, regionReader or
\* currentChunkCoord is not null, currentFile is not null: what a load in
\* flight at the closing of the file gives is not installed afterwards.
C30_DataOnlyWithAFile ==
    phase = "app" =>
        ((\/ cin.rootTag # NoTag
          \/ cin.regionReader # NoReader
          \/ cin.currentChunkCoord # NoCoord) => cin.currentFile # AppNull)

====
